---- MODULE Spec2Model ----
(***************************************************************************)
(* A model of the core of App-Contas: the data model                       *)
(* (src/src/models/expense_models.py), the validation engine               *)
(* (src/src/models/validation.py), the calculation engine                  *)
(* (src/src/core/calculator.py) and the storage layer                      *)
(* (src/src/core/data_manager.py).                                         *)
(*                                                                         *)
(* Units.  Money is an integer number of cents, kWh an integer number of   *)
(* hundredths of a kWh and a percentage an integer number of hundredths of *)
(* a percent: every Decimal the program normalises is quantized to 0.01    *)
(* (_to_decimal).  A text (a description, a                                *)
(* month name, a transaction id) is the record of its length and of its    *)
(* length once stripped of white space; a date is a number.                *)
(***************************************************************************)
EXTENDS Integers, Sequences, FiniteSets, TLC

VARIABLES
    op,                 \* the operation that ran last
    args,               \* its arguments
    returned,           \* what it returned (NoValue when it raised)
    raised,             \* the exception it raised ("none" when it returned)
    result,             \* the CalculationResult object the calculator works on
    vresult,            \* the ValidationResult of the last validate()
    cache,              \* DataManager._cache
    dirty,              \* DataManager._dirty
    data_file,          \* DataManager.data_file: [exists, content]
    temp_file,          \* the .tmp file beside it: [exists, content]
    month_record,       \* the MonthData object the user edits
    backup_dir,         \* the files of the backups directory, newest first
    lock,               \* the thread that holds DataManager._lock
    ui,                 \* the UI thread: "in" a call of the DataManager or "out"
    worker,             \* the AutoSaveWorker thread: its position and locals
    instants,           \* the values the cache has had since the worker's
                        \* save_data began
    config,             \* the ConfigManager: its values, flag, file and timer
    window              \* the MainWindow: its unsaved-changes flag and edits

vars ==
    <<op, args, returned, raised, result, vresult, cache, dirty, data_file,
      temp_file, month_record, backup_dir, lock, ui, worker, instants,
      config, window>>

\* Optional[T]: None is the empty sequence, a value v is <<v>>
None == <<>>
Some(v) == <<v>>
NoValue == "NoValue"

(***************************************************************************)
(* Bounds of the model.                                                    *)
(***************************************************************************)
MaxKwh == 14            \* kWh values range over -1..MaxKwh hundredths
MaxBill == 21          \* electricity bills range over -1..MaxBill cents
MaxAmount == 5          \* other money amounts range over -1..MaxAmount cents

(***************************************************************************)
(* Python's decimal arithmetic.  decimal.getcontext().prec is 28: a        *)
(* division or a product is rounded (half-even) to 28 significant digits.  *)
(* A Decimal is a sequence of digits, most significant first, and an       *)
(* exponent: <<d1, .., dn>> and e stand for d1..dn * 10^e.                 *)
(***************************************************************************)
DecimalPrec == 28

RECURSIVE DigitsOf(_)
DigitsOf(n) ==
    IF n < 10 THEN <<n>> ELSE Append(DigitsOf(n \div 10), n % 10)

RECURSIVE IntOf(_)
IntOf(ds) ==
    IF ds = <<>> THEN 0 ELSE 10 * IntOf(SubSeq(ds, 1, Len(ds) - 1)) + ds[Len(ds)]

RECURSIVE Increment(_)
\* ds + 1 on the digits (a carry out of the first digit lengthens the sequence)
Increment(ds) ==
    IF ds = <<>> THEN <<1>>
    ELSE IF ds[Len(ds)] < 9
         THEN [ds EXCEPT ![Len(ds)] = @ + 1]
         ELSE Append(Increment(SubSeq(ds, 1, Len(ds) - 1)), 0)

AllZero(ds) == \A i \in 1..Len(ds) : ds[i] = 0

\* ROUND_HALF_EVEN of the digits ds to DecimalPrec significant digits
\* (Decimal._fix); sticky says that non-zero digits follow ds.
RoundPrec(ds, e, sticky) ==
    IF Len(ds) <= DecimalPrec
    THEN [digits |-> ds, exp |-> e]
    ELSE LET keep == SubSeq(ds, 1, DecimalPrec)
             rest == SubSeq(ds, DecimalPrec + 1, Len(ds))
             more == sticky \/ ~AllZero(SubSeq(rest, 2, Len(rest)))
             up   == \/ rest[1] > 5
                     \/ rest[1] = 5 /\ more
                     \/ rest[1] = 5 /\ ~more /\ keep[DecimalPrec] % 2 = 1
         IN  [digits |-> IF up THEN Increment(keep) ELSE keep,
              exp |-> e + Len(rest)]

RECURSIVE LongDivision(_, _, _, _)
\* The digits of r/d (0 < r < d) after the decimal point: zeros counts the
\* zeros before the first significant digit; one digit more than the
\* precision is produced, and rem is what is left of the dividend.
LongDivision(r, d, zeros, ds) ==
    IF r = 0 \/ Len(ds) = DecimalPrec + 1
    THEN [digits |-> ds, zeros |-> zeros, rem |-> r]
    ELSE LET q == (10 * r) \div d
             s == (10 * r) % d
         IN  IF ds = <<>> /\ q = 0
             THEN LongDivision(s, d, zeros + 1, ds)
             ELSE LongDivision(s, d, zeros, Append(ds, q))

\* Decimal.__truediv__ for 0 <= n <= d, d > 0: n/d correctly rounded.
DecimalDivide(n, d) ==
    IF n = 0 THEN [digits |-> <<0>>, exp |-> 0]
    ELSE IF n = d THEN [digits |-> <<1>>, exp |-> 0]
    ELSE LET ld == LongDivision(n, d, 0, <<>>)
         IN  RoundPrec(ld.digits, 0 - (ld.zeros + Len(ld.digits)), ld.rem # 0)

RECURSIVE TimesDigits(_, _, _, _, _)
\* ds[1..i] * b + carry, school multiplication from the last digit on
TimesDigits(ds, b, i, carry, acc) ==
    IF i = 0
    THEN IF carry = 0 THEN acc ELSE DigitsOf(carry) \o acc
    ELSE LET p == ds[i] * b + carry
         IN  TimesDigits(ds, b, i - 1, p \div 10, <<p % 10>> \o acc)

\* Decimal.__mul__ of the Decimal x by the natural number b * 10^be
DecimalTimes(x, b, be) ==
    IF b = 0 \/ AllZero(x.digits)
    THEN [digits |-> <<0>>, exp |-> 0]
    ELSE RoundPrec(TimesDigits(x.digits, b, Len(x.digits), 0, <<>>),
                   x.exp + be, FALSE)

RECURSIVE Pow10(_)
Pow10(k) == IF k = 0 THEN 1 ELSE 10 * Pow10(k - 1)

\* Decimal.quantize(Decimal('0.01'), rounding=ROUND_HALF_UP) of x >= 0, in
\* cents: the first discarded digit decides, 5 and above round up.
QuantizeCents(x) ==
    LET e == x.exp + 2              \* exponent of x counted in cents
        k == Len(x.digits) + e      \* digits before the cents' point
    IN  IF e >= 0 THEN IntOf(x.digits) * Pow10(e)
        ELSE IF k < 0 THEN 0
        ELSE IntOf(SubSeq(x.digits, 1, k))
             + (IF x.digits[k + 1] >= 5 THEN 1 ELSE 0)

\* (n / d).quantize(0.01, ROUND_HALF_UP) for an exact quotient n/d (d > 0):
\* half-way cases go away from zero.
QuantizeHalfUp(n, d) ==
    IF n >= 0 THEN (2 * n + d) \div (2 * d)
    ELSE 0 - ((2 * (0 - n) + d) \div (2 * d))

Get(dict, key, default) == IF key \in DOMAIN dict THEN dict[key] ELSE default

(***************************************************************************)
(* ExpenseCalculator                                                       *)
(***************************************************************************)

\* calculate_electricity with each share rounded on its own
calculate_electricity_rounds_both(e) ==
    IF e.total_kwh = 0
    THEN [casa1 |-> 0, casa2 |-> 0, total |-> 0]
    ELSE [casa1 |-> QuantizeCents(DecimalTimes(
                        DecimalDivide(e.total_kwh - e.casa2_kwh, e.total_kwh),
                        e.total_bill, -2)),
          casa2 |-> QuantizeCents(DecimalTimes(
                        DecimalDivide(e.casa2_kwh, e.total_kwh), e.total_bill, -2)),
          total |-> e.total_bill,
          casa1_kwh |-> e.total_kwh - e.casa2_kwh, casa2_kwh |-> e.casa2_kwh]

\* _calculate_electricity(electricity_data) for 0 <= casa2_kwh <= total_kwh
calculate_electricity(e) ==
    IF e.total_kwh = 0
    THEN [casa1 |-> 0, casa2 |-> 0, total |-> 0]
    ELSE LET casa1_kwh == e.total_kwh - e.casa2_kwh
             casa1_percentage == DecimalDivide(casa1_kwh, e.total_kwh)
             casa1_value ==
                 QuantizeCents(DecimalTimes(casa1_percentage, e.total_bill, -2))
             casa2_value == e.total_bill - casa1_value
         IN  [casa1 |-> casa1_value, casa2 |-> casa2_value,
              total |-> e.total_bill,
              casa1_kwh |-> casa1_kwh, casa2_kwh |-> e.casa2_kwh]

\* class SplitMethod(Enum): a member is not equal to its value string
PERCENTAGE == "SplitMethod.PERCENTAGE"
FIXED == "SplitMethod.FIXED"
EQUAL == "SplitMethod.EQUAL"
SplitMethod == {PERCENTAGE, FIXED, EQUAL}

\* calculate_recurring_bills with House1's share rounded and House2 given
\* the remainder
calculate_recurring_bills_rounds_casa1(rb) ==
    LET share(amount) ==
            QuantizeHalfUp(amount * (10000 - rb.casa2_percentage), 10000)
        water == IF rb.water > 0
                 THEN [water_casa1 |-> share(rb.water),
                       water_casa2 |-> rb.water - share(rb.water),
                       water_total |-> rb.water]
                 ELSE <<>>
        internet == IF rb.internet > 0
                    THEN [internet_casa1 |-> share(rb.internet),
                          internet_casa2 |-> rb.internet - share(rb.internet),
                          internet_total |-> rb.internet]
                    ELSE <<>>
    IN  water @@ internet

\* _calculate_recurring_bills(recurring_bills): a dict that holds the keys of
\* a bill only when the bill is positive (gas is not looked at)
calculate_recurring_bills(rb) ==
    LET share(amount) == QuantizeHalfUp(amount * rb.casa2_percentage, 10000)
        water == IF rb.water > 0
                 THEN [water_casa1 |-> rb.water - share(rb.water),
                       water_casa2 |-> share(rb.water),
                       water_total |-> rb.water]
                 ELSE <<>>
        internet == IF rb.internet > 0
                    THEN [internet_casa1 |-> rb.internet - share(rb.internet),
                          internet_casa2 |-> share(rb.internet),
                          internet_total |-> rb.internet]
                    ELSE <<>>
    IN  water @@ internet

\* one turn of the loop of _calculate_occasional_expenses: split_method is a
\* SplitMethod member and is compared with the string "fixed"
calculate_occasional_expense(expense, default_casa2_percentage) ==
    LET casa2_value ==
            QuantizeHalfUp(expense.amount * default_casa2_percentage, 10000)
    IN  IF expense.split_method = "fixed"
        THEN [total |-> expense.amount, casa1 |-> expense.casa1_value,
              casa2 |-> expense.casa2_value, method |-> expense.split_method]
        ELSE [total |-> expense.amount, casa1 |-> expense.amount - casa2_value,
              casa2 |-> casa2_value, method |-> expense.split_method]

\* _calculate_occasional_expenses(expenses, default_casa2_percentage)
calculate_occasional_expenses(expenses, default_casa2_percentage) ==
    [i \in 1..Len(expenses) |->
        calculate_occasional_expense(expenses[i], default_casa2_percentage)]

\* OccasionalExpense.calculate_split(default_casa2_percentage): <<casa1, casa2>>
calculate_split(expense, default_casa2_percentage) ==
    IF expense.split_method = FIXED
    THEN <<expense.casa1_value, expense.casa2_value>>
    ELSE IF expense.split_method = EQUAL
    THEN LET half == QuantizeHalfUp(expense.amount, 2)
         IN  <<half, expense.amount - half>>
    ELSE LET casa2_percent ==
                 IF expense.percentage # None THEN expense.percentage[1]
                 ELSE IF default_casa2_percentage # None
                      THEN default_casa2_percentage[1]
                      ELSE 5000
             casa2_amount == QuantizeHalfUp(expense.amount * casa2_percent, 10000)
         IN  <<expense.amount - casa2_amount, casa2_amount>>

(***************************************************************************)
(* CalculationResult: a dataclass whose fields are the dicts below; the    *)
(* amounts are properties that read the totals and balances dicts and have *)
(* no setter.                                                              *)
(***************************************************************************)
CalculationResultFields ==
    {"electricity", "recurring", "occasional", "totals", "balances"}

CalculationResultProperties ==
    {"total_expenses", "casa1_should_pay", "casa2_should_pay", "month_balance",
     "previous_balance", "final_house1", "final_house2"}

\* CalculationResult(**kwargs): the generated __init__ takes the fields only
CalculationResult(kwargs) ==
    LET defaults == [electricity |-> <<>>, recurring |-> <<>>,
                     occasional |-> <<>>, totals |-> <<>>, balances |-> <<>>]
    IN  IF DOMAIN kwargs \subseteq CalculationResultFields
        THEN [raised |-> "none", obj |-> kwargs @@ defaults]
        ELSE [raised |-> "TypeError", obj |-> NoValue]

total_expenses(r) == Get(r.totals, "total_expenses", 0)
casa1_should_pay(r) == Get(r.totals, "casa1_should_pay", 0)
casa2_should_pay(r) == Get(r.totals, "casa2_should_pay", 0)
month_balance(r) == Get(r.balances, "month_balance", 0)
previous_balance(r) == Get(r.balances, "previous_balance", 0)
final_house1(r) == Get(r.balances, "final_house1", 0)
final_house2(r) == Get(r.balances, "final_house2", 0)

\* result.<name> = value
SetAttr(r, name, value) ==
    IF name \in CalculationResultProperties
    THEN [raised |-> "AttributeError", obj |-> r]
    ELSE [raised |-> "none", obj |-> [r EXCEPT ![name] = value]]

RECURSIVE SumOver(_, _)
SumOver(seq, key) ==
    IF seq = <<>> THEN 0 ELSE seq[1][key] + SumOver(Tail(seq), key)

\* _calculate_totals(result, month_data)
calculate_totals(r, month_data) ==
    LET casa1_total == Get(r.electricity, "casa1", 0)
                       + Get(r.recurring, "water_casa1", 0)
                       + Get(r.recurring, "internet_casa1", 0)
                       + SumOver(r.occasional, "casa1")
        casa2_total == Get(r.electricity, "casa2", 0)
                       + Get(r.recurring, "water_casa2", 0)
                       + Get(r.recurring, "internet_casa2", 0)
                       + SumOver(r.occasional, "casa2")
        s1 == SetAttr(r, "casa1_should_pay", casa1_total)
        s2 == SetAttr(s1.obj, "casa2_should_pay", casa2_total)
        s3 == SetAttr(s2.obj, "total_expenses", casa1_total + casa2_total)
    IN  IF s1.raised # "none" THEN s1 ELSE IF s2.raised # "none" THEN s2 ELSE s3

\* _calculate_balances(result, payments)
calculate_balances(r, payments) ==
    LET casa1_balance == casa1_should_pay(r) - payments.casa1_paid
        casa2_balance == casa2_should_pay(r) - payments.casa2_paid
        s1 == SetAttr(r, "month_balance", casa2_balance - casa1_balance)
        s2 == SetAttr(s1.obj, "final_house1",
                      casa1_balance - previous_balance(s1.obj))
        s3 == SetAttr(s2.obj, "final_house2",
                      casa2_balance + previous_balance(s2.obj))
    IN  IF s1.raised # "none" THEN s1 ELSE IF s2.raised # "none" THEN s2 ELSE s3

(***************************************************************************)
(* The data model's own validation (expense_models.py): each validate()    *)
(* returns the list of its error messages.                                 *)
(***************************************************************************)

\* if cond: errors.append(error)
Gate(cond, error) == IF cond THEN <<error>> ELSE <<>>

\* ElectricityData.validate
ElectricityData_validate(e) ==
    Gate(e.total_kwh < 0, "Total kWh cannot be negative")
    \o Gate(e.casa2_kwh < 0, "Casa 2 kWh cannot be negative")
    \o Gate(e.casa2_kwh > e.total_kwh, "Casa 2 kWh cannot exceed total kWh")
    \o Gate(e.total_bill < 0, "Total bill cannot be negative")
    \o Gate(e.rate_per_kwh # None /\ e.rate_per_kwh[1] < 0,
          "Rate per kWh cannot be negative")
    \o Gate(e.total_kwh > 1000000, "Total kWh seems unrealistically high")
    \o Gate(e.total_bill > 5000000, "Total bill seems unrealistically high")

\* RecurringBills.validate
RecurringBills_validate(rb) ==
    Gate(rb.water < 0, "Water bill cannot be negative")
    \o Gate(rb.internet < 0, "Internet bill cannot be negative")
    \o Gate(rb.gas < 0, "Gas bill cannot be negative")
    \o Gate(~(0 <= rb.casa2_percentage /\ rb.casa2_percentage <= 10000),
          "Casa 2 percentage must be between 0 and 100")
    \o Gate(rb.water > 1000000, "Water bill seems unrealistically high")
    \o Gate(rb.internet > 500000, "Internet bill seems unrealistically high")
    \o Gate(rb.gas > 1000000, "Gas bill seems unrealistically high")

\* OccasionalExpense.validate
OccasionalExpense_validate(x) ==
    Gate(x.description.stripped = 0, "Description is required")
    \o Gate(x.amount <= 0, "Amount must be greater than zero")
    \o Gate(x.split_method = FIXED
          /\ LET total_fixed == x.casa1_value + x.casa2_value
                 diff == total_fixed - x.amount
             IN  (IF diff < 0 THEN 0 - diff ELSE diff) > 1,
          "Sum of fixed values must equal total amount")
    \o Gate(x.percentage # None /\ ~(0 <= x.percentage[1] /\ x.percentage[1] <= 10000),
          "Percentage must be between 0 and 100")
    \o Gate(x.recurrence_months < 1, "Recurrence months must be at least 1")
    \o Gate(x.amount > 10000000, "Amount seems unrealistically high")

\* Payment.validate
Payment_validate(p) ==
    Gate(p.casa1_paid < 0, "Casa 1 payment cannot be negative")
    \o Gate(p.casa2_paid < 0, "Casa 2 payment cannot be negative")
    \o Gate(p.casa1_paid + p.casa2_paid = 0,
          "At least one payment must be greater than zero")
    \o Gate(p.casa1_paid > 10000000, "Casa 1 payment seems unrealistically high")
    \o Gate(p.casa2_paid > 10000000, "Casa 2 payment seems unrealistically high")

RECURSIVE ExpenseErrors(_, _)
\* the loop of MonthData.validate over the expenses, from expense i on
ExpenseErrors(expenses, i) ==
    IF i > Len(expenses) THEN <<>>
    ELSE OccasionalExpense_validate(expenses[i]) \o ExpenseErrors(expenses, i + 1)

\* MonthData.validate
MonthData_validate(m) ==
    Gate(~(2000 <= m.year /\ m.year <= 2100), "Year must be between 2000 and 2100")
    \o Gate(m.month.len = 0, "Month name is required")
    \o ElectricityData_validate(m.electricity)
    \o RecurringBills_validate(m.recurring_bills)
    \o Payment_validate(m.payments)
    \o ExpenseErrors(m.occasional_expenses, 1)
    \o Gate(m.is_locked /\ m.modified_at > m.created_at,
          "Cannot modify locked month data")

\* calculate_month(month_data, previous_balance): the exception it raises, or
\* the CalculationResult it returns
calculate_month(month_data, previous) ==
    LET new == CalculationResult([previous_balance |-> previous])
        r == [new.obj EXCEPT
                 !.electricity = calculate_electricity(month_data.electricity),
                 !.recurring = calculate_recurring_bills(month_data.recurring_bills),
                 !.occasional = calculate_occasional_expenses(
                                    month_data.occasional_expenses,
                                    month_data.recurring_bills.casa2_percentage)]
        t == calculate_totals(r, month_data)
        b == calculate_balances(t.obj, month_data.payments)
    IN  IF MonthData_validate(month_data) # <<>>
        THEN [raised |-> "ValueError", returned |-> NoValue]
        ELSE IF new.raised # "none"
        THEN [raised |-> new.raised, returned |-> NoValue]
        ELSE IF t.raised # "none"
        THEN [raised |-> t.raised, returned |-> NoValue]
        ELSE IF b.raised # "none"
        THEN [raised |-> b.raised, returned |-> NoValue]
        ELSE [raised |-> "none", returned |-> b.obj]

(***************************************************************************)
(* The validation engine (validation.py).  A ValidationError is the record *)
(* of its field, its code and its severity; index is the position of the   *)
(* expense a composite validator prefixes the field with (-1: no prefix).  *)
(***************************************************************************)
ValidationError(field, code, severity) ==
    [field |-> field, code |-> code, severity |-> severity, index |-> -1]

\* ValidationResult(): __post_init__ sets is_valid from the (empty) errors
ValidationResult == [is_valid |-> TRUE, errors |-> <<>>, warnings |-> <<>>]

\* ValidationResult.add_error
add_error(r, field, code) ==
    [r EXCEPT !.errors = Append(@, ValidationError(field, code, "error")),
              !.is_valid = FALSE]

\* ValidationResult.add_warning
add_warning(r, field, code) ==
    [r EXCEPT !.warnings = Append(@, ValidationError(field, code, "warning"))]

\* ValidationResult.merge
merge(r, other) ==
    [is_valid |-> Len(r.errors \o other.errors) = 0,
     errors |-> r.errors \o other.errors,
     warnings |-> r.warnings \o other.warnings]

\* result.errors.extend(errors): the list grows, is_valid is not touched
errors_extend(r, errors) == [r EXCEPT !.errors = @ \o errors]

\* BaseValidator._validate_decimal_range
validate_decimal_range(value, field, min_value, max_value, allow_zero, allow_negative) ==
    Gate(~allow_negative /\ value < 0, ValidationError(field, "NEGATIVE_VALUE", "error"))
    \o Gate(~allow_zero /\ value = 0, ValidationError(field, "ZERO_VALUE", "error"))
    \o Gate(min_value # None /\ value < min_value[1],
            ValidationError(field, "VALUE_TOO_LOW", "error"))
    \o Gate(max_value # None /\ value > max_value[1],
            ValidationError(field, "VALUE_TOO_HIGH", "error"))

\* BaseValidator._validate_string_format (no caller passes a pattern)
validate_string_format(value, field, min_length, max_length, required) ==
    IF required /\ value.stripped = 0
    THEN <<ValidationError(field, "REQUIRED_FIELD", "error")>>
    ELSE Gate(value.len # 0 /\ value.len < min_length,
              ValidationError(field, "TOO_SHORT", "error"))
         \o Gate(value.len # 0 /\ max_length # None /\ value.len > max_length[1],
                 ValidationError(field, "TOO_LONG", "error"))

\* BaseValidator._validate_percentage
validate_percentage(value, field) ==
    validate_decimal_range(value, field, Some(0), Some(10000), TRUE, FALSE)

RECURSIVE apply_custom_rules(_, _)
\* BaseValidator._apply_custom_rules: a rule returns None ("passes"), returns a
\* ValidationError ("fails") or raises ("raises": logged, nothing added)
apply_custom_rules(rules, r) ==
    IF rules = <<>> THEN r
    ELSE apply_custom_rules(
             Tail(rules),
             IF Head(rules) = "fails"
             THEN [r EXCEPT !.errors =
                       Append(@, ValidationError("custom", "VALIDATION_ERROR", "error"))]
             ELSE r)

IsInstance(data, class) == data.class = class

\* ElectricityValidator.validate
ElectricityValidator_validate(data, strict_mode, custom_rules) ==
    IF ~IsInstance(data, "ElectricityData")
    THEN add_error(ValidationResult, "data", "INVALID_TYPE")
    ELSE LET r1 == errors_extend(ValidationResult,
                       validate_decimal_range(data.total_kwh, "total_kwh",
                                              Some(0), Some(1000000), TRUE, FALSE))
             r2 == errors_extend(r1,
                       validate_decimal_range(data.casa2_kwh, "casa2_kwh",
                                              Some(0), Some(data.total_kwh), TRUE, FALSE))
             r3 == errors_extend(r2,
                       validate_decimal_range(data.total_bill, "total_bill",
                                              Some(0), Some(5000000), TRUE, FALSE))
             r4 == IF data.rate_per_kwh # None
                   THEN errors_extend(r3,
                            validate_decimal_range(data.rate_per_kwh[1], "rate_per_kwh",
                                                   Some(0), Some(1000), TRUE, FALSE))
                   ELSE r3
             r5 == IF data.total_kwh > 0 /\ data.total_bill > 0
                      /\ data.total_bill > 5 * data.total_kwh
                   THEN add_warning(r4, "rate_per_kwh", "HIGH_RATE")
                   ELSE r4
             r6 == IF data.casa2_kwh > data.total_kwh
                   THEN add_error(r5, "casa2_kwh", "INVALID_PROPORTION")
                   ELSE r5
             r7 == IF strict_mode /\ data.total_kwh = 0 /\ data.total_bill > 0
                   THEN add_error(r6, "total_kwh", "INCONSISTENT_DATA")
                   ELSE r6
             r8 == IF strict_mode /\ data.total_bill = 0 /\ data.total_kwh > 0
                   THEN add_warning(r7, "total_bill", "MISSING_BILL")
                   ELSE r7
         IN  apply_custom_rules(custom_rules, r8)

\* RecurringBillsValidator.validate
RecurringBillsValidator_validate(data, strict_mode, custom_rules) ==
    IF ~IsInstance(data, "RecurringBills")
    THEN add_error(ValidationResult, "data", "INVALID_TYPE")
    ELSE LET total_amount == data.water + data.internet + data.gas
             r1 == errors_extend(ValidationResult,
                       validate_decimal_range(data.water, "water", Some(0), Some(1000000), TRUE, FALSE)
                       \o validate_decimal_range(data.internet, "internet", Some(0), Some(500000), TRUE, FALSE)
                       \o validate_decimal_range(data.gas, "gas", Some(0), Some(1000000), TRUE, FALSE))
             r2 == errors_extend(r1,
                       validate_percentage(data.casa2_percentage, "casa2_percentage"))
             r3 == IF total_amount > 2000000
                   THEN add_warning(r2, "total_amount", "HIGH_TOTAL")
                   ELSE r2
             r4 == IF strict_mode /\ total_amount = 0
                   THEN add_warning(r3, "total_amount", "NO_BILLS")
                   ELSE r3
         IN  apply_custom_rules(custom_rules, r4)

\* the fixed values must add up to the amount, no tolerance
exceeds_tolerance_of_zero(total_fixed, amount) == total_fixed # amount

\* abs(total_fixed - data.amount) > Decimal('0.01')
exceeds_tolerance(total_fixed, amount) ==
    (IF total_fixed - amount < 0 THEN amount - total_fixed
                                 ELSE total_fixed - amount) > 1

\* OccasionalExpenseValidator.validate
OccasionalExpenseValidator_validate(data, strict_mode, custom_rules) ==
    IF ~IsInstance(data, "OccasionalExpense")
    THEN add_error(ValidationResult, "data", "INVALID_TYPE")
    ELSE LET r1 == errors_extend(ValidationResult,
                       validate_string_format(data.description, "description",
                                              1, Some(200), TRUE))
             r2 == errors_extend(r1,
                       validate_decimal_range(data.amount, "amount",
                                              Some(1), Some(10000000), FALSE, FALSE))
             total_fixed == data.casa1_value + data.casa2_value
             r3 == IF data.split_method = FIXED
                   THEN LET f1 == errors_extend(r2,
                                      validate_decimal_range(data.casa1_value,
                                          "casa1_value", Some(0), None, TRUE, FALSE))
                            f2 == errors_extend(f1,
                                      validate_decimal_range(data.casa2_value,
                                          "casa2_value", Some(0), None, TRUE, FALSE))
                        IN  IF exceeds_tolerance(total_fixed, data.amount)
                            THEN add_error(f2, "split_values", "INVALID_SPLIT_SUM")
                            ELSE f2
                   ELSE IF data.split_method = PERCENTAGE /\ data.percentage # None
                   THEN errors_extend(r2,
                            validate_percentage(data.percentage[1], "percentage"))
                   ELSE r2
             r4 == IF data.is_recurring /\ data.recurrence_months < 1
                   THEN add_error(r3, "recurrence_months", "INVALID_RECURRENCE")
                   ELSE r3
             r5 == IF data.is_recurring /\ data.recurrence_months > 60
                   THEN add_warning(r4, "recurrence_months", "LONG_RECURRENCE")
                   ELSE r4
             r6 == IF data.due_date # None /\ data.due_date[1] < data.date_added
                   THEN add_error(r5, "due_date", "INVALID_DATE_ORDER")
                   ELSE r5
             r7 == IF data.amount > 1000000
                   THEN add_warning(r6, "amount", "HIGH_AMOUNT")
                   ELSE r6
         IN  apply_custom_rules(custom_rules, r7)

\* PaymentValidator.validate
PaymentValidator_validate(data, strict_mode, custom_rules) ==
    IF ~IsInstance(data, "Payment")
    THEN add_error(ValidationResult, "data", "INVALID_TYPE")
    ELSE LET total_paid == data.casa1_paid + data.casa2_paid
             r1 == errors_extend(ValidationResult,
                       validate_decimal_range(data.casa1_paid, "casa1_paid",
                                              Some(0), Some(10000000), TRUE, FALSE))
             r2 == errors_extend(r1,
                       validate_decimal_range(data.casa2_paid, "casa2_paid",
                                              Some(0), Some(10000000), TRUE, FALSE))
             r3 == IF total_paid = 0
                   THEN add_warning(r2, "total_paid", "NO_PAYMENTS")
                   ELSE r2
             r4 == IF data.transaction_id.len # 0
                   THEN errors_extend(r3,
                            validate_string_format(data.transaction_id,
                                "transaction_id", 0, Some(50), FALSE))
                   ELSE r3
             r5 == IF total_paid > 5000000
                   THEN add_warning(r4, "total_paid", "HIGH_PAYMENT")
                   ELSE r4
         IN  apply_custom_rules(custom_rules, r5)

RECURSIVE merge_expenses(_, _, _, _, _)
\* the loop of MonthDataValidator.validate over the expenses, from expense i on
merge_expenses(r, expenses, i, strict_mode, rules) ==
    IF i > Len(expenses) THEN r
    ELSE LET expense_result ==
                 OccasionalExpenseValidator_validate(expenses[i], strict_mode, rules)
             prefixed ==
                 [expense_result EXCEPT
                     !.errors = [k \in 1..Len(@) |-> [@[k] EXCEPT !.index = i - 1]],
                     !.warnings = [k \in 1..Len(@) |-> [@[k] EXCEPT !.index = i - 1]]]
         IN  merge_expenses(merge(r, prefixed), expenses, i + 1, strict_mode, rules)

\* MonthDataValidator._validate_month_consistency
validate_month_consistency(data, r) ==
    LET total_estimated == data.electricity.total_bill
                           + data.recurring_bills.water
                           + data.recurring_bills.internet
                           + data.recurring_bills.gas
                           + SumOver(data.occasional_expenses, "amount")
        total_paid == data.payments.casa1_paid + data.payments.casa2_paid
    IN  IF total_paid > 0 /\ total_estimated > 0
        THEN IF total_paid > 2 * total_estimated
             THEN add_warning(r, "payment_ratio", "HIGH_PAYMENT_RATIO")
             ELSE IF 2 * total_paid < total_estimated
             THEN add_warning(r, "payment_ratio", "LOW_PAYMENT_RATIO")
             ELSE r
        ELSE r

\* MonthDataValidator.validate: sub_rules are the custom rules registered on
\* the four sub-validators, custom_rules those registered on this one
MonthDataValidator_validate(data, strict_mode, custom_rules, sub_rules) ==
    IF ~IsInstance(data, "MonthData")
    THEN add_error(ValidationResult, "data", "INVALID_TYPE")
    ELSE LET r1 == IF ~(2000 <= data.year /\ data.year <= 2100)
                   THEN add_error(ValidationResult, "year", "INVALID_YEAR")
                   ELSE ValidationResult
             r2 == errors_extend(r1,
                       validate_string_format(data.month, "month", 1, None, TRUE))
             r3 == merge(r2, ElectricityValidator_validate(
                                 data.electricity, strict_mode, sub_rules))
             r4 == merge(r3, RecurringBillsValidator_validate(
                                 data.recurring_bills, strict_mode, sub_rules))
             r5 == merge(r4, PaymentValidator_validate(
                                 data.payments, strict_mode, sub_rules))
             r6 == merge_expenses(r5, data.occasional_expenses, 1,
                                  strict_mode, sub_rules)
             r7 == IF strict_mode THEN validate_month_consistency(data, r6) ELSE r6
             r8 == IF data.is_locked /\ data.modified_at > data.created_at
                   THEN add_error(r7, "is_locked", "LOCKED_DATA")
                   ELSE r7
         IN  apply_custom_rules(custom_rules, r8)

(***************************************************************************)
(* The records the operations are applied to.                              *)
(***************************************************************************)
NoText == [len |-> 0, stripped |-> 0]
BlankText == [len |-> 1, stripped |-> 0]
Word == [len |-> 7, stripped |-> 7]
LongText == [len |-> 201, stripped |-> 201]

Amounts == -1..MaxAmount
Percentages == {-1, 1, 3333, 6700, 9999, 10001} \cup {500 * i : i \in 0..20}

ElectricityData(total_kwh, casa2_kwh, total_bill, rate_per_kwh) ==
    [class |-> "ElectricityData", total_kwh |-> total_kwh, casa2_kwh |-> casa2_kwh,
     total_bill |-> total_bill, rate_per_kwh |-> rate_per_kwh]

RecurringBills(water, internet, gas, casa2_percentage) ==
    [class |-> "RecurringBills", water |-> water, internet |-> internet,
     gas |-> gas, casa2_percentage |-> casa2_percentage]

OccasionalExpense(description, amount, split_method, casa1_value, casa2_value, percentage) ==
    [class |-> "OccasionalExpense", description |-> description, amount |-> amount,
     split_method |-> split_method, casa1_value |-> casa1_value,
     casa2_value |-> casa2_value, percentage |-> percentage,
     date_added |-> 1, due_date |-> None,
     is_recurring |-> FALSE, recurrence_months |-> 1]

Payment(casa1_paid, casa2_paid) ==
    [class |-> "Payment", casa1_paid |-> casa1_paid, casa2_paid |-> casa2_paid,
     transaction_id |-> NoText]

MonthData(year, month, electricity, recurring_bills, occasional_expenses, payments) ==
    [class |-> "MonthData", year |-> year, month |-> month,
     electricity |-> electricity, recurring_bills |-> recurring_bills,
     occasional_expenses |-> occasional_expenses, payments |-> payments,
     created_at |-> 1, modified_at |-> 1, is_locked |-> FALSE,
     calculation_cache |-> None]

\* the electricity records with 0 <= casa2_kwh <= total_kwh and a bill >= 0
ValidElectricity ==
    {e \in {ElectricityData(t, c, b, None) :
                t \in 0..MaxKwh, c \in 0..MaxKwh, b \in 0..MaxBill} :
        e.casa2_kwh <= e.total_kwh}

SomeRecurringBills ==
    {RecurringBills(w, i, g, p) :
         w \in Amounts, i \in Amounts, g \in {0, 1}, p \in Percentages}

SomeExpenses ==
    {OccasionalExpense(Word, a, m, c1, c2, q) :
         a \in 0..MaxAmount, m \in SplitMethod, c1 \in {0, 2}, c2 \in {1, 3},
         q \in {None, Some(0), Some(2500), Some(5000)}}

SomePayments == {Payment(a, b) : a \in {-1, 0, 1, 3}, b \in {0, 2}}

\* the month records calculate_month is tried on
SomeMonths ==
    {[MonthData(y, m, e, rb, xs, p) EXCEPT !.is_locked = l[1], !.modified_at = l[2]] :
         y \in {1999, 2024}, m \in {NoText, Word},
         e \in {ElectricityData(0, 0, 0, None), ElectricityData(3, 2, 5, None),
                ElectricityData(2, 3, 5, None)},
         rb \in {RecurringBills(3, 1, 0, 5000), RecurringBills(1, 0, 0, 10001)},
         xs \in {<<>>,
                 <<OccasionalExpense(Word, 3, PERCENTAGE, 0, 0, None)>>,
                 <<OccasionalExpense(Word, 5, FIXED, 2, 3, None),
                   OccasionalExpense(Word, 5, FIXED, 2, 1, None)>>},
         p \in SomePayments,
         l \in {<<FALSE, 1>>, <<TRUE, 1>>, <<TRUE, 2>>}}

(***************************************************************************)
(* SpecCalc: the calculator's operations, each applied to the records      *)
(* above from the idle state.                                              *)
(***************************************************************************)
store_vars == <<cache, dirty, data_file, temp_file>>
thread_vars == <<lock, ui, worker, instants>>
app_vars == <<config, window>>
other_vars == <<month_record, backup_dir, thread_vars, app_vars>>

\* no call is under way; no month is being edited, there is no backup and
\* no worker thread
Idle ==
    /\ op = "idle" /\ args = <<>> /\ returned = NoValue /\ raised = "none"
    /\ result = NoValue /\ vresult = ValidationResult
    /\ month_record = NoValue /\ backup_dir = <<>>
    /\ lock = "none" /\ ui = "out" /\ worker = NoValue /\ instants = {}
    /\ config = NoValue /\ window = NoValue

InitIdle ==
    /\ Idle
    /\ cache = <<>> /\ dirty = FALSE
    /\ data_file = [exists |-> FALSE, content |-> <<>>]
    /\ temp_file = [exists |-> FALSE, content |-> <<>>]

Call(name, arguments, value, exception, object) ==
    /\ op' = name /\ args' = arguments /\ returned' = value
    /\ raised' = exception /\ result' = object
    /\ UNCHANGED other_vars

CalculateMonth ==
    /\ op = "idle"
    /\ \E m \in SomeMonths, previous \in {0, 2} :
           LET out == calculate_month(m, previous)
           IN  /\ Call("calculate_month", [month_data |-> m, previous_balance |-> previous],
                       out.returned, out.raised, NoValue)
               /\ UNCHANGED <<vresult, store_vars>>

CalculateElectricity ==
    /\ op = "idle"
    /\ \E e \in ValidElectricity :
           /\ Call("calculate_electricity", [electricity |-> e],
                   calculate_electricity(e), "none", NoValue)
           /\ UNCHANGED <<vresult, store_vars>>

CalculateRecurringBills ==
    /\ op = "idle"
    /\ \E rb \in SomeRecurringBills :
           /\ Call("calculate_recurring_bills", [recurring_bills |-> rb],
                   calculate_recurring_bills(rb), "none", NoValue)
           /\ UNCHANGED <<vresult, store_vars>>

CalculateOccasionalExpenses ==
    /\ op = "idle"
    /\ \E x \in SomeExpenses, y \in {OccasionalExpense(Word, 3, PERCENTAGE, 0, 0, Some(2500)),
                                     OccasionalExpense(Word, 3, FIXED, 1, 2, None)},
          n \in 1..2, p \in {0, 3333, 5000, 10000} :
           LET expenses == SubSeq(<<x, y>>, 1, n)
           IN  /\ Call("calculate_occasional_expenses",
                       [expenses |-> expenses, default_casa2_percentage |-> p],
                       calculate_occasional_expenses(expenses, p), "none", NoValue)
               /\ UNCHANGED <<vresult, store_vars>>

CalculateSplit ==
    /\ op = "idle"
    /\ \E x \in SomeExpenses, p \in {None, Some(0), Some(3333), Some(5000), Some(10000)} :
           /\ Call("calculate_split", [expense |-> x, default_casa2_percentage |-> p],
                   calculate_split(x, p), "none", NoValue)
           /\ UNCHANGED <<vresult, store_vars>>

\* the CalculationResult calculate_month would hand to _calculate_totals
Shares(m) ==
    [CalculationResult(<<>>).obj EXCEPT
        !.electricity = calculate_electricity(m.electricity),
        !.recurring = calculate_recurring_bills(m.recurring_bills),
        !.occasional = calculate_occasional_expenses(
                           m.occasional_expenses, m.recurring_bills.casa2_percentage)]

CalculateTotals ==
    /\ op = "idle"
    /\ \E m \in {x \in SomeMonths : MonthData_validate(x) = <<>>} :
           LET out == calculate_totals(Shares(m), m)
           IN  /\ Call("calculate_totals", [month_data |-> m],
                       NoValue, out.raised, out.obj)
               /\ UNCHANGED <<vresult, store_vars>>

CalculateBalances ==
    /\ op = "idle"
    /\ \E a \in 0..MaxAmount, b \in 0..MaxAmount, previous \in {-2, 0, 3},
          p \in SomePayments :
           LET r == CalculationResult(
                        [totals |-> [casa1_should_pay |-> a, casa2_should_pay |-> b,
                                     total_expenses |-> a + b],
                         balances |-> [previous_balance |-> previous]]).obj
               out == calculate_balances(r, p)
           IN  /\ Call("calculate_balances", [result |-> r, payments |-> p],
                       NoValue, out.raised, out.obj)
               /\ UNCHANGED <<vresult, store_vars>>

\* project_next_month: weights = [0.5, 0.3, 0.2], in tenths
weights == <<5, 3, 2>>

\* historical_data[-3:]
last_three(historical_data) ==
    SubSeq(historical_data,
           IF Len(historical_data) > 3 THEN Len(historical_data) - 2 ELSE 1,
           Len(historical_data))

\* weights[min(i, 2)] of the i-th month of enumerate(historical_data[-3:]),
\* counted from 1 here
weight_of(i) == weights[IF i < 3 THEN i ELSE 3]

\* results.get(field, 0) of month_data.get('results', {}), in cents
results_get(month_data, field) ==
    IF "results" \in DOMAIN month_data /\ field \in DOMAIN month_data.results
    THEN month_data.results[field]
    ELSE 0

RECURSIVE weighted(_, _, _)
\* the sum of results[field] * weight over the months from the i-th on, in
\* thousandths of a unit
weighted(recent, field, i) ==
    IF i > Len(recent) THEN 0
    ELSE results_get(recent[i], field) * weight_of(i)
         + weighted(recent, field, i + 1)

RECURSIVE total_weight(_, _)
total_weight(recent, i) ==
    IF i > Len(recent) THEN 0
    ELSE weight_of(i) + total_weight(recent, i + 1)

\* ExpenseCalculator.project_next_month.  The estimates are Decimals, kept
\* here in units of 0.00001: the weighted sums are exact, and so are the
\* quotients by 0.5, 0.8 and 1.0, which have few digits.  current_balance
\* is in cents.  The float statistics confidence and volatility are left out.
project_next_month(historical_data, current_balance) ==
    IF historical_data = <<>>
    THEN [estimated_total |-> 0, estimated_casa1 |-> 0, estimated_casa2 |-> 0,
          basis |-> "no_data"]
    ELSE LET recent == last_three(historical_data)
             estimate(field) ==
                 (weighted(recent, field, 1) * 1000) \div total_weight(recent, 1)
         IN  [estimated_total |-> estimate("total_expenses"),
              estimated_casa1 |-> estimate("casa1_should_pay"),
              estimated_casa2 |-> estimate("casa2_should_pay"),
              estimated_casa1_with_balance |->
                  estimate("casa1_should_pay") - 1000 * current_balance,
              estimated_casa2_with_balance |->
                  estimate("casa2_should_pay") + 1000 * current_balance,
              basis |-> "last_" \o ToString(Len(recent)) \o "months"]

\* the months of a history: with results, with results that lack a field,
\* and without results
HistoryMonths ==
    {[results |-> [total_expenses |-> 9, casa1_should_pay |-> 4,
                   casa2_should_pay |-> 5]],
     [results |-> [total_expenses |-> 20, casa1_should_pay |-> 8,
                   casa2_should_pay |-> 12]],
     [results |-> [total_expenses |-> 1]],
     [year |-> 2024]}

\* RecurringBills.get_casa1_amount(bill_type): House1's percentage of the
\* bill, rounded half up to the cent
get_casa1_amount(rb, bill_type) ==
    QuantizeHalfUp(rb[bill_type] * (10000 - rb.casa2_percentage), 10000)

\* RecurringBills.get_casa2_amount(bill_type): the rest of the bill
get_casa2_amount(rb, bill_type) ==
    rb[bill_type] - get_casa1_amount(rb, bill_type)

GetCasaAmounts ==
    /\ op = "idle"
    /\ \E rb \in SomeRecurringBills, bill_type \in {"water", "internet"} :
           /\ Call("get_casa_amounts", [recurring_bills |-> rb, bill_type |-> bill_type],
                   [casa1 |-> get_casa1_amount(rb, bill_type),
                    casa2 |-> get_casa2_amount(rb, bill_type)], "none", NoValue)
           /\ UNCHANGED <<vresult, store_vars>>

MaxHistory == 4         \* histories hold up to MaxHistory months

Histories == UNION {[1..n -> HistoryMonths] : n \in 0..MaxHistory}

ProjectNextMonth ==
    /\ op = "idle"
    /\ \E historical_data \in Histories, current_balance \in {0, 2} :
           /\ Call("project_next_month",
                   [historical_data |-> historical_data,
                    current_balance |-> current_balance],
                   project_next_month(historical_data, current_balance),
                   "none", NoValue)
           /\ UNCHANGED <<vresult, store_vars>>

\* the caller is done with the outcome
Return ==
    /\ op # "idle"
    /\ op' = "idle" /\ args' = <<>> /\ returned' = NoValue /\ raised' = "none"
    /\ result' = NoValue /\ vresult' = ValidationResult
    /\ UNCHANGED <<store_vars, other_vars>>

NextCalc ==
    \/ CalculateMonth
    \/ CalculateElectricity
    \/ CalculateRecurringBills
    \/ CalculateOccasionalExpenses
    \/ CalculateSplit
    \/ CalculateTotals
    \/ CalculateBalances
    \/ ProjectNextMonth
    \/ GetCasaAmounts
    \/ Return

SpecCalc == InitIdle /\ [][NextCalc]_vars

(***************************************************************************)
(* The claims about the calculator, checked under SpecCalc.                *)
(***************************************************************************)

\* C1: calculate_month raises for every month record that fails validation
\* and returns a CalculationResult for every record that MonthDataValidator
\* (default, non-strict mode) reports valid, warnings included.
C1_RaisesExactlyOnInvalidRecords ==
    op = "calculate_month" =>
        LET v == MonthDataValidator_validate(args.month_data, FALSE, <<>>, <<>>)
        IN  (raised = "none") <=> v.is_valid

\* C2: for every valid electricity record with total consumption > 0 the
\* House1 and House2 amounts sum exactly to the total bill.
C2_ElectricitySharesSumToBill ==
    (op = "calculate_electricity" /\ args.electricity.total_kwh > 0) =>
        returned.casa1 + returned.casa2 = args.electricity.total_bill

\* a split of a bill whose exact shares are not whole cents
C2_Witness ==
    /\ op = "calculate_electricity"
    /\ args.electricity.total_kwh > 0
    /\ args.electricity.total_bill > 0
    /\ returned.casa1 * args.electricity.total_kwh
           # args.electricity.total_bill
             * (args.electricity.total_kwh - args.electricity.casa2_kwh)

\* c is amount * percentage / 100 rounded half up to the cent
IsHalfUpShare(c, amount, percentage) ==
    /\ 20000 * c <= 2 * amount * percentage + 10000
    /\ 2 * amount * percentage + 10000 < 20000 * (c + 1)

InRange(percentage) == 0 <= percentage /\ percentage <= 10000

\* C3: for every amount A >= 0 and percentage p in [0,100] the percentage
\* split of recurring bills and of percentage-method occasional expenses gives
\* House2 = round-half-up(A*p/100) and House1 = A - House2.
C3_PercentageSplit ==
    /\ (/\ op = "calculate_recurring_bills"
        /\ InRange(args.recurring_bills.casa2_percentage)) =>
           LET rb == args.recurring_bills
           IN  /\ rb.water >= 0 =>
                      /\ IsHalfUpShare(Get(returned, "water_casa2", 0),
                                       rb.water, rb.casa2_percentage)
                      /\ Get(returned, "water_casa1", 0)
                             = rb.water - Get(returned, "water_casa2", 0)
               /\ rb.internet >= 0 =>
                      /\ IsHalfUpShare(Get(returned, "internet_casa2", 0),
                                       rb.internet, rb.casa2_percentage)
                      /\ Get(returned, "internet_casa1", 0)
                             = rb.internet - Get(returned, "internet_casa2", 0)
    /\ (/\ op = "calculate_split"
        /\ args.expense.split_method = PERCENTAGE) =>
           LET x == args.expense
               p == IF x.percentage # None THEN x.percentage[1]
                    ELSE IF args.default_casa2_percentage # None
                         THEN args.default_casa2_percentage[1]
                         ELSE 5000
           IN  /\ IsHalfUpShare(returned[2], x.amount, p)
               /\ returned[1] = x.amount - returned[2]
    /\ op = "calculate_occasional_expenses" =>
           \A i \in 1..Len(args.expenses) :
               args.expenses[i].split_method = PERCENTAGE =>
                   /\ IsHalfUpShare(returned[i].casa2, args.expenses[i].amount,
                                    args.default_casa2_percentage)
                   /\ returned[i].casa1
                          = args.expenses[i].amount - returned[i].casa2

\* a water bill whose House2 share falls exactly between two cents
C3_Witness ==
    /\ op = "calculate_recurring_bills"
    /\ InRange(args.recurring_bills.casa2_percentage)
    /\ args.recurring_bills.water > 0
    /\ (args.recurring_bills.water * args.recurring_bills.casa2_percentage) % 10000
           = 5000
    /\ returned["water_casa1"] + returned["water_casa2"] = args.recurring_bills.water

\* C4: for every calculation result, month_balance = House2-balance -
\* House1-balance, final_house1 = House1-balance - previous_balance and
\* final_house2 = House2-balance + previous_balance, a balance being what the
\* house should pay minus what it paid.
C4_BalancesOfResult ==
    op = "calculate_balances" =>
        LET casa1_balance == casa1_should_pay(args.result) - args.payments.casa1_paid
            casa2_balance == casa2_should_pay(args.result) - args.payments.casa2_paid
        IN  /\ month_balance(result) = casa2_balance - casa1_balance
            /\ final_house1(result) = casa1_balance - previous_balance(args.result)
            /\ final_house2(result) = casa2_balance + previous_balance(args.result)

\* C15: for an occasional expense whose split method is Fixed the calculator
\* reports House1 share = the stored House1 value and House2 share = the
\* stored House2 value, whatever the month's House2 percentage is.
C15_FixedSharesAreStoredValues ==
    op = "calculate_occasional_expenses" =>
        \A i \in 1..Len(args.expenses) :
            args.expenses[i].split_method = FIXED =>
                /\ returned[i].casa1 = args.expenses[i].casa1_value
                /\ returned[i].casa2 = args.expenses[i].casa2_value

\* the percentage a Percentage-method expense is to be split by: its own
\* override when one is set, the default otherwise
OverrideOr(expense, default) ==
    IF expense.percentage # None THEN expense.percentage[1] ELSE default

\* C16: a Percentage-method occasional expense is split by its own override
\* percentage q whenever one is set (every q in [0,100]) and by the month's
\* default House2 percentage only when it has no override.
C16_OverridePercentageIsUsed ==
    /\ op = "calculate_occasional_expenses" =>
           \A i \in 1..Len(args.expenses) :
               LET x == args.expenses[i]
               IN  x.split_method = PERCENTAGE =>
                       /\ IsHalfUpShare(returned[i].casa2, x.amount,
                                        OverrideOr(x, args.default_casa2_percentage))
                       /\ returned[i].casa1 = x.amount - returned[i].casa2
    /\ (/\ op = "calculate_split"
        /\ args.expense.split_method = PERCENTAGE
        /\ args.default_casa2_percentage # None) =>
           /\ IsHalfUpShare(returned[2], args.expense.amount,
                            OverrideOr(args.expense, args.default_casa2_percentage[1]))
           /\ returned[1] = args.expense.amount - returned[2]

\* C17: for an occasional expense whose split method is Equal the two shares
\* are round-half-up(amount/2) and amount minus that rounded half, House1
\* receiving the amount minus the rounded half, whatever the month's House2
\* percentage is.
C17_EqualSplitHouse1TakesRemainder ==
    /\ (op = "calculate_split" /\ args.expense.split_method = EQUAL) =>
           /\ IsHalfUpShare(returned[2], args.expense.amount, 5000)
           /\ returned[1] = args.expense.amount - returned[2]
    /\ op = "calculate_occasional_expenses" =>
           \A i \in 1..Len(args.expenses) :
               args.expenses[i].split_method = EQUAL =>
                   /\ IsHalfUpShare(returned[i].casa2, args.expenses[i].amount, 5000)
                   /\ returned[i].casa1 = args.expenses[i].amount - returned[i].casa2

\* C18: for total consumption > 0 the House2 electricity amount is
\* round-half-up(total bill * House2 kWh / total kWh) at 2 decimals and the
\* House1 amount is the bill minus that value.
C18_House2ElectricityIsRounded ==
    (op = "calculate_electricity" /\ args.electricity.total_kwh > 0) =>
        LET e == args.electricity
        IN  /\ 2 * returned.casa2 * e.total_kwh
                   <= 2 * e.total_bill * e.casa2_kwh + e.total_kwh
            /\ 2 * e.total_bill * e.casa2_kwh + e.total_kwh
                   < 2 * (returned.casa2 + 1) * e.total_kwh
            /\ returned.casa1 = e.total_bill - returned.casa2

\* the recurring bills of a given type are split by the House2 percentage
BillIsSplit(shares, type, amount, percentage) ==
    amount > 0 =>
        /\ {type \o "_casa1", type \o "_casa2"} \subseteq DOMAIN shares
        /\ IsHalfUpShare(shares[type \o "_casa2"], amount, percentage)
        /\ shares[type \o "_casa1"] = amount - shares[type \o "_casa2"]

\* C19: every recurring bill type with a positive amount (water, internet
\* and gas) is split by the House2 percentage and its two shares are part of
\* what the houses should pay, so total expenses = the electricity shares +
\* water + internet + gas + the shares of every occasional expense.
C19_EveryBillTypeIsCounted ==
    /\ (/\ op = "calculate_recurring_bills"
        /\ InRange(args.recurring_bills.casa2_percentage)) =>
           LET rb == args.recurring_bills
           IN  /\ BillIsSplit(returned, "water", rb.water, rb.casa2_percentage)
               /\ BillIsSplit(returned, "internet", rb.internet, rb.casa2_percentage)
               /\ BillIsSplit(returned, "gas", rb.gas, rb.casa2_percentage)
    /\ op = "calculate_totals" =>
           LET m == args.month_data
               bills == m.recurring_bills
           IN  /\ raised = "none"
               /\ total_expenses(result)
                      = Get(Shares(m).electricity, "total", 0)
                        + bills.water + bills.internet + bills.gas
                        + SumOver(Shares(m).occasional, "total")
               /\ total_expenses(result)
                      = casa1_should_pay(result) + casa2_should_pay(result)

\* the total of the i-th most recent month of a chronological history
RecentTotal(historical_data, i) ==
    LET month_data == historical_data[Len(historical_data) - i + 1]
    IN  IF "results" \in DOMAIN month_data
           /\ "total_expenses" \in DOMAIN month_data.results
        THEN month_data.results.total_expenses
        ELSE 0

\* C24: on a history in chronological order project_next_month weighs the
\* most recent month 0.5, the one before it 0.3 and the one before that
\* 0.2, and divides by the sum of the weights of the months there are (one,
\* two or three).  The estimate is in units of 0.00001, the totals in cents.
C24_MostRecentMonthWeighsMost ==
    (op = "project_next_month" /\ args.historical_data # <<>>) =>
        LET h == args.historical_data
            available == IF Len(h) < 3 THEN Len(h) ELSE 3
            sum == 5 * RecentTotal(h, 1)
                   + (IF available >= 2 THEN 3 * RecentTotal(h, 2) ELSE 0)
                   + (IF available >= 3 THEN 2 * RecentTotal(h, 3) ELSE 0)
            sum_of_weights == IF available = 1 THEN 5
                              ELSE IF available = 2 THEN 8 ELSE 10
        IN  returned.estimated_total * sum_of_weights = sum * 1000

\* C29: for a bill of zero or more cents and a House2 percentage within
\* 0..100, get_casa1_amount and get_casa2_amount of the record return the
\* shares the calculator's split of the recurring bills gives for that bill
\* (no shares at all, which is zero for both, for a bill of zero).
C29_RecordSharesEqualCalculatorShares ==
    (/\ op = "get_casa_amounts"
     /\ args.recurring_bills[args.bill_type] >= 0
     /\ args.recurring_bills.casa2_percentage \in 0..10000) =>
        LET split == calculate_recurring_bills(args.recurring_bills)
        IN  /\ returned.casa1 = Get(split, args.bill_type \o "_casa1", 0)
            /\ returned.casa2 = Get(split, args.bill_type \o "_casa2", 0)

(***************************************************************************)
(* SpecValid: the validators, each applied once from the idle state to     *)
(* records of its own class and of another, in default and strict mode,    *)
(* with and without custom rules.                                          *)
(***************************************************************************)
TooMuch == 10000001

Rules == {<<>>, <<"fails">>, <<"raises", "passes">>}

ExpenseRecords ==
    {[OccasionalExpense(d, a, m, c1, c2, q) EXCEPT
          !.is_recurring = rec[1], !.recurrence_months = rec[2], !.due_date = due] :
         d \in {NoText, BlankText, Word, LongText}, a \in Amounts,
         m \in SplitMethod, c1 \in {-1, 0, 2}, c2 \in {1, 3},
         q \in {None, Some(5000), Some(10001)},
         rec \in {<<FALSE, 1>>, <<TRUE, 0>>, <<TRUE, 61>>},
         due \in {None, Some(0)}}

Validated(name, data, strict_mode, custom_rules, outcome) ==
    /\ Call(name, [data |-> data, strict_mode |-> strict_mode,
                   custom_rules |-> custom_rules], NoValue, "none", NoValue)
    /\ vresult' = outcome
    /\ UNCHANGED store_vars

ValidateElectricity ==
    /\ op = "idle"
    /\ \E data \in {ElectricityData(t, c, b, r) :
                        t \in {-1, 0, 2, TooMuch}, c \in {-1, 0, 1, 3},
                        b \in {-1, 0, 1, 11, TooMuch},
                        r \in {None, Some(-1), Some(0), Some(1001)}}
                   \cup {Payment(1, 0)},
          strict_mode \in BOOLEAN, rules \in Rules :
           Validated("ElectricityValidator.validate", data, strict_mode, rules,
                     ElectricityValidator_validate(data, strict_mode, rules))

ValidateRecurringBills ==
    /\ op = "idle"
    /\ \E data \in SomeRecurringBills \cup {RecurringBills(TooMuch, TooMuch, 0, 5000),
                                            RecurringBills(0, 0, 0, 5000),
                                            Payment(1, 0)},
          strict_mode \in BOOLEAN, rules \in Rules :
           Validated("RecurringBillsValidator.validate", data, strict_mode, rules,
                     RecurringBillsValidator_validate(data, strict_mode, rules))

ValidateOccasionalExpense ==
    /\ op = "idle"
    /\ \E data \in ExpenseRecords \cup {Payment(1, 0)},
          strict_mode \in BOOLEAN, rules \in Rules :
           Validated("OccasionalExpenseValidator.validate", data, strict_mode, rules,
                     OccasionalExpenseValidator_validate(data, strict_mode, rules))

ValidatePayment ==
    /\ op = "idle"
    /\ \E data \in {[Payment(a, b) EXCEPT !.transaction_id = t] :
                        a \in {-1, 0, 1, TooMuch}, b \in {0, 2},
                        t \in {NoText, Word, LongText}}
                   \cup {RecurringBills(0, 0, 0, 5000)},
          strict_mode \in BOOLEAN, rules \in Rules :
           Validated("PaymentValidator.validate", data, strict_mode, rules,
                     PaymentValidator_validate(data, strict_mode, rules))

ValidateMonthData ==
    /\ op = "idle"
    /\ \E data \in SomeMonths \cup {Payment(1, 0)}, strict_mode \in BOOLEAN,
          rules \in {<<>>, <<"fails">>}, sub_rules \in {<<>>, <<"fails">>} :
           /\ Call("MonthDataValidator.validate",
                   [data |-> data, strict_mode |-> strict_mode,
                    custom_rules |-> rules, sub_rules |-> sub_rules],
                   NoValue, "none", NoValue)
           /\ vresult' = MonthDataValidator_validate(data, strict_mode, rules, sub_rules)
           /\ UNCHANGED store_vars

\* OccasionalExpense.validate(): the list of messages of the record itself
ValidateExpenseModel ==
    /\ op = "idle"
    /\ \E data \in ExpenseRecords :
           /\ Call("OccasionalExpense.validate", [data |-> data],
                   OccasionalExpense_validate(data), "none", NoValue)
           /\ UNCHANGED <<vresult, store_vars>>

NextValid ==
    \/ ValidateElectricity
    \/ ValidateRecurringBills
    \/ ValidateOccasionalExpense
    \/ ValidatePayment
    \/ ValidateMonthData
    \/ ValidateExpenseModel
    \/ Return

SpecValid == InitIdle /\ [][NextValid]_vars

(***************************************************************************)
(* The claims about the validators, checked under SpecValid.               *)
(***************************************************************************)
ValidatorCalls ==
    {"ElectricityValidator.validate", "RecurringBillsValidator.validate",
     "OccasionalExpenseValidator.validate", "PaymentValidator.validate",
     "MonthDataValidator.validate"}

\* C9: every ValidationResult returned by any validator's validate() has
\* is_valid true exactly when its error list is empty.
C9_ValidExactlyWhenNoErrors ==
    op \in ValidatorCalls => (vresult.is_valid <=> vresult.errors = <<>>)

\* every field of the expense other than the fixed split is acceptable to
\* OccasionalExpenseValidator and to OccasionalExpense.validate
OtherFieldsValid(x) ==
    /\ x.description.stripped > 0 /\ x.description.len <= 200
    /\ 1 <= x.amount /\ x.amount <= 10000000
    /\ x.casa1_value >= 0 /\ x.casa2_value >= 0
    /\ x.percentage # None => InRange(x.percentage[1])
    /\ x.recurrence_months >= 1
    /\ x.due_date # None => x.due_date[1] >= x.date_added

WithinCent(x) ==
    /\ x.casa1_value + x.casa2_value - x.amount <= 1
    /\ x.amount - (x.casa1_value + x.casa2_value) <= 1

\* C10: an expense with the Fixed split method whose other fields are valid
\* passes validation exactly when |house1 + house2 - amount| <= 0.01;
\* otherwise the result carries INVALID_SPLIT_SUM and is not valid.
C10_FixedSplitTolerance ==
    /\ (/\ op = "OccasionalExpenseValidator.validate"
        /\ IsInstance(args.data, "OccasionalExpense")
        /\ args.data.split_method = FIXED
        /\ OtherFieldsValid(args.data)
        /\ \A i \in 1..Len(args.custom_rules) : args.custom_rules[i] # "fails") =>
           IF WithinCent(args.data)
           THEN vresult.is_valid /\ vresult.errors = <<>>
           ELSE /\ ~vresult.is_valid
                /\ \E i \in 1..Len(vresult.errors) :
                       vresult.errors[i].code = "INVALID_SPLIT_SUM"
    /\ (/\ op = "OccasionalExpense.validate"
        /\ args.data.split_method = FIXED
        /\ OtherFieldsValid(args.data)) =>
           (returned = <<>> <=> WithinCent(args.data))

\* a fixed split that is one cent off its amount and is accepted
C10_Witness ==
    /\ op = "OccasionalExpenseValidator.validate"
    /\ IsInstance(args.data, "OccasionalExpense")
    /\ args.data.split_method = FIXED
    /\ OtherFieldsValid(args.data)
    /\ args.custom_rules = <<>>
    /\ args.data.casa1_value + args.data.casa2_value = args.data.amount + 1
    /\ vresult.is_valid

(***************************************************************************)
(* Dictionaries: to_dict() and from_dict() of the data classes.  A Python  *)
(* None in a dictionary is None, the string of a Decimal is DecimalStr,    *)
(* the ISO string of a datetime is IsoFormat.                              *)
(***************************************************************************)
\* str(value) of a Decimal
DecimalStr(n) == [str |-> n]

\* _to_decimal(value) of the string of a Decimal or of the int 0 / 67 given
\* as default: Decimal(str(value)).quantize(Decimal('0.01'), ROUND_HALF_UP)
to_decimal(value) == QuantizeHalfUp(value.str, 1)

\* value.isoformat() and datetime.fromisoformat(text)
IsoFormat(d) == [iso |-> d]
fromisoformat(text) == text.iso

\* bool(x) of an Optional[Decimal]: None and zero are false
DecimalIsTrue(x) == x # None /\ x[1] # 0

\* bool(text) of an optional string holding a Decimal or an ISO date: only
\* None is false, a string such as "0.00" is not empty
StringIsTrue(text) == text # None

\* ElectricityData.to_dict
ElectricityData_to_dict(e) ==
    [total_kwh |-> DecimalStr(e.total_kwh),
     casa2_kwh |-> DecimalStr(e.casa2_kwh),
     total_bill |-> DecimalStr(e.total_bill),
     rate_per_kwh |-> IF DecimalIsTrue(e.rate_per_kwh)
                      THEN DecimalStr(e.rate_per_kwh[1]) ELSE None]

\* ElectricityData.from_dict
ElectricityData_from_dict(data) ==
    ElectricityData(
        to_decimal(Get(data, "total_kwh", DecimalStr(0))),
        to_decimal(Get(data, "casa2_kwh", DecimalStr(0))),
        to_decimal(Get(data, "total_bill", DecimalStr(0))),
        IF StringIsTrue(Get(data, "rate_per_kwh", None))
        THEN Some(to_decimal(data.rate_per_kwh)) ELSE None)

\* RecurringBills.to_dict
RecurringBills_to_dict(rb) ==
    [water |-> DecimalStr(rb.water), internet |-> DecimalStr(rb.internet),
     gas |-> DecimalStr(rb.gas),
     casa2_percentage |-> DecimalStr(rb.casa2_percentage)]

\* RecurringBills.from_dict
RecurringBills_from_dict(data) ==
    RecurringBills(
        to_decimal(Get(data, "water", DecimalStr(0))),
        to_decimal(Get(data, "internet", DecimalStr(0))),
        to_decimal(Get(data, "gas", DecimalStr(0))),
        to_decimal(Get(data, "casa2_percentage", DecimalStr(6700))))

\* SplitMethod.value and SplitMethod(value)
SplitMethodValue(member) ==
    CASE member = PERCENTAGE -> "percentage"
      [] member = FIXED -> "fixed"
      [] member = EQUAL -> "equal"

SplitMethodOf(value) ==
    CASE value = "percentage" -> PERCENTAGE
      [] value = "fixed" -> FIXED
      [] value = "equal" -> EQUAL

\* OccasionalExpense.to_dict
OccasionalExpense_to_dict(x) ==
    [description |-> x.description,
     amount |-> DecimalStr(x.amount),
     split_method |-> SplitMethodValue(x.split_method),
     casa1_value |-> DecimalStr(x.casa1_value),
     casa2_value |-> DecimalStr(x.casa2_value),
     percentage |-> IF DecimalIsTrue(x.percentage)
                    THEN DecimalStr(x.percentage[1]) ELSE None,
     date_added |-> IsoFormat(x.date_added),
     due_date |-> IF x.due_date # None THEN IsoFormat(x.due_date[1]) ELSE None,
     is_recurring |-> x.is_recurring,
     recurrence_months |-> x.recurrence_months]

\* OccasionalExpense.from_dict at time now
OccasionalExpense_from_dict(data, now) ==
    [class |-> "OccasionalExpense",
     description |-> Get(data, "description", NoText),
     amount |-> to_decimal(Get(data, "amount", DecimalStr(0))),
     split_method |-> SplitMethodOf(Get(data, "split_method", "percentage")),
     casa1_value |-> to_decimal(Get(data, "casa1_value", DecimalStr(0))),
     casa2_value |-> to_decimal(Get(data, "casa2_value", DecimalStr(0))),
     percentage |-> IF StringIsTrue(Get(data, "percentage", None))
                    THEN Some(to_decimal(data.percentage)) ELSE None,
     date_added |-> fromisoformat(Get(data, "date_added", IsoFormat(now))),
     due_date |-> IF StringIsTrue(Get(data, "due_date", None))
                  THEN Some(fromisoformat(data.due_date)) ELSE None,
     is_recurring |-> Get(data, "is_recurring", FALSE),
     recurrence_months |-> Get(data, "recurrence_months", 1)]

\* Payment.to_dict
Payment_to_dict(p) ==
    [casa1_paid |-> DecimalStr(p.casa1_paid), casa2_paid |-> DecimalStr(p.casa2_paid),
     transaction_id |-> p.transaction_id]

\* Payment.from_dict
Payment_from_dict(data) ==
    [class |-> "Payment",
     casa1_paid |-> to_decimal(Get(data, "casa1_paid", DecimalStr(0))),
     casa2_paid |-> to_decimal(Get(data, "casa2_paid", DecimalStr(0))),
     transaction_id |-> Get(data, "transaction_id", NoText)]

\* MonthData.to_dict
MonthData_to_dict(m) ==
    [year |-> m.year, month |-> m.month,
     electricity |-> ElectricityData_to_dict(m.electricity),
     recurring_bills |-> RecurringBills_to_dict(m.recurring_bills),
     occasional_expenses |->
         [i \in 1..Len(m.occasional_expenses) |->
              OccasionalExpense_to_dict(m.occasional_expenses[i])],
     payments |-> Payment_to_dict(m.payments),
     created_at |-> IsoFormat(m.created_at),
     modified_at |-> IsoFormat(m.modified_at),
     is_locked |-> m.is_locked,
     calculation_cache |-> m.calculation_cache]

\* MonthData.from_dict at time now (year numbers stand for their datetime)
MonthData_from_dict(data, now) ==
    [class |-> "MonthData",
     year |-> Get(data, "year", now),
     month |-> Get(data, "month", NoText),
     electricity |->
         IF "electricity" \in DOMAIN data
         THEN ElectricityData_from_dict(data.electricity)
         ELSE ElectricityData(0, 0, 0, None),
     recurring_bills |->
         IF "recurring_bills" \in DOMAIN data
         THEN RecurringBills_from_dict(data.recurring_bills)
         ELSE RecurringBills(0, 0, 0, 6700),
     payments |->
         IF "payments" \in DOMAIN data
         THEN Payment_from_dict(data.payments)
         ELSE Payment(0, 0),
     occasional_expenses |->
         IF "occasional_expenses" \in DOMAIN data
         THEN [i \in 1..Len(data.occasional_expenses) |->
                   OccasionalExpense_from_dict(data.occasional_expenses[i], now)]
         ELSE <<>>,
     created_at |-> IF "created_at" \in DOMAIN data
                    THEN fromisoformat(data.created_at) ELSE now,
     modified_at |-> IF "modified_at" \in DOMAIN data
                     THEN fromisoformat(data.modified_at) ELSE now,
     is_locked |-> Get(data, "is_locked", FALSE),
     calculation_cache |-> Get(data, "calculation_cache", None)]

(***************************************************************************)
(* SpecDict: each data class is written with to_dict() and read back with  *)
(* from_dict(), from the idle state, on records that pass validation.      *)
(***************************************************************************)
Rates == {None, Some(0), Some(1), Some(75)}

RoundTrip(name, x, dict, back) ==
    /\ Call(name, [x |-> x, dict |-> dict], back, "none", NoValue)
    /\ UNCHANGED <<vresult, store_vars>>

ElectricityRoundTrip ==
    /\ op = "idle"
    /\ \E x \in {ElectricityData(t, c, b, r) :
                     t \in {0, 3}, c \in {0, 2}, b \in {0, MaxBill}, r \in Rates} :
           RoundTrip("ElectricityData.from_dict", x, ElectricityData_to_dict(x),
                     ElectricityData_from_dict(ElectricityData_to_dict(x)))

ExpenseRoundTrip ==
    /\ op = "idle"
    /\ \E x \in {[OccasionalExpense(Word, a, m, c1, a - c1, q) EXCEPT !.due_date = due] :
                     a \in 1..MaxAmount, m \in SplitMethod, c1 \in {0, 1},
                     q \in {None, Some(0), Some(2500), Some(10000)},
                     due \in {None, Some(2)}},
          now \in {1, 3} :
           RoundTrip("OccasionalExpense.from_dict", x, OccasionalExpense_to_dict(x),
                     OccasionalExpense_from_dict(OccasionalExpense_to_dict(x), now))

MonthDataRoundTrip ==
    /\ op = "idle"
    /\ \E e \in {ElectricityData(3, 2, 5, r) : r \in Rates},
          xs \in {<<>>,
                  <<OccasionalExpense(Word, 3, PERCENTAGE, 0, 0, None)>>,
                  <<OccasionalExpense(Word, 3, PERCENTAGE, 0, 0, Some(0))>>,
                  <<OccasionalExpense(Word, 3, PERCENTAGE, 0, 0, Some(2500))>>,
                  <<OccasionalExpense(Word, 5, FIXED, 2, 3, None),
                    OccasionalExpense(Word, 4, EQUAL, 0, 0, None)>>},
          now \in {1, 3} :
           LET x == MonthData(2024, Word, e, RecurringBills(3, 1, 0, 6700), xs,
                              Payment(1, 2))
           IN  RoundTrip("MonthData.from_dict", x, MonthData_to_dict(x),
                         MonthData_from_dict(MonthData_to_dict(x), now))

NextDict ==
    \/ ElectricityRoundTrip
    \/ ExpenseRoundTrip
    \/ MonthDataRoundTrip
    \/ Return

SpecDict == InitIdle /\ [][NextDict]_vars

\* the Decimal fields of the records, the optional ones included
ElectricityDecimals(e) ==
    <<e.total_kwh, e.casa2_kwh, e.total_bill, e.rate_per_kwh>>
RecurringBillsDecimals(rb) == <<rb.water, rb.internet, rb.gas, rb.casa2_percentage>>
ExpenseDecimals(x) == <<x.amount, x.casa1_value, x.casa2_value, x.percentage>>
PaymentDecimals(p) == <<p.casa1_paid, p.casa2_paid>>
MonthDecimals(m) ==
    <<ElectricityDecimals(m.electricity), RecurringBillsDecimals(m.recurring_bills),
      PaymentDecimals(m.payments),
      [i \in 1..Len(m.occasional_expenses) |->
           ExpenseDecimals(m.occasional_expenses[i])]>>

\* C8: from_dict(to_dict(x)) preserves every Decimal field of occasional
\* expenses, electricity data and month records, including the optional
\* percentage and rate_per_kwh at any valid value.
C8_RoundTripKeepsDecimals ==
    /\ op = "ElectricityData.from_dict" =>
           ElectricityDecimals(returned) = ElectricityDecimals(args.x)
    /\ op = "OccasionalExpense.from_dict" =>
           ExpenseDecimals(returned) = ExpenseDecimals(args.x)
    /\ op = "MonthData.from_dict" =>
           MonthDecimals(returned) = MonthDecimals(args.x)

(***************************************************************************)
(* The storage layer (data_manager.py).  The cache maps a year to the      *)
(* dictionary of its months, a month name to the dictionary of the month.  *)
(* A value read from JSON is a dictionary, the string of a Decimal or of a *)
(* date, or Number(n); a Decimal object kept in the cache is Decimal(n).   *)
(* A file is [exists, content]; the content of the data file is the JSON   *)
(* document, whose year keys are strings.                                  *)
(***************************************************************************)
months ==
    <<"Janeiro", "Fevereiro", "Março", "Abril", "Maio", "Junho",
      "Julho", "Agosto", "Setembro", "Outubro", "Novembro", "Dezembro">>

Number(n) == [number |-> n]
Decimal(n) == [decimal |-> n]
Absent == [exists |-> FALSE, content |-> <<>>]
File(content) == [exists |-> TRUE, content |-> content]

\* isinstance(value, dict) of a value of the cache or of a document
IsDict(value) == DOMAIN value \cap {"number", "str", "decimal", "iso"} = {}
IsDecimal(value) == "decimal" \in DOMAIN value

\* Decimal(str(value)) of an int, a float or the string of a Decimal
DecimalOfStr(value) ==
    Decimal(IF "str" \in DOMAIN value THEN value.str ELSE value.number)

decimal_fields ==
    {"total_expenses", "casa1_should_pay", "casa2_should_pay",
     "previous_balance", "final_house1", "final_house2", "month_balance"}

\* the values of a dictionary of results that are int, float or str
ConvertValues(dict) ==
    [k \in DOMAIN dict |->
         IF IsDecimal(dict[k]) THEN dict[k] ELSE DecimalOfStr(dict[k])]

\* DataManager._convert_results_to_decimal
convert_results_to_decimal(results) ==
    [k \in DOMAIN results |->
         IF k \in decimal_fields THEN DecimalOfStr(results[k])
         ELSE IF k \in {"electricity", "recurring"} THEN ConvertValues(results[k])
         ELSE IF k = "occasional"
         THEN [i \in DOMAIN results[k] |->
                   [j \in DOMAIN results[k][i] |->
                        IF j \in {"total", "casa1", "casa2"}
                        THEN DecimalOfStr(results[k][i][j])
                        ELSE results[k][i][j]]]
         ELSE results[k]]

\* int(year_str) of a key of the document: None when it raises ValueError
int(year_str) ==
    IF \E y \in 1990..2110 : ToString(y) = year_str
    THEN Some(CHOOSE y \in 1990..2110 : ToString(y) = year_str)
    ELSE None

\* DataManager._validate_and_convert_data: keys that are no integer are
\* skipped, months that are no dictionary are left out
validate_and_convert_data(data) ==
    LET years == {t \in DOMAIN data : int(t) # None}
    IN  [y \in {int(t)[1] : t \in years} |->
             LET year_data == data[CHOOSE t \in years : int(t)[1] = y]
             IN  [month_name \in {k \in DOMAIN year_data : IsDict(year_data[k])} |->
                      LET month_data == year_data[month_name]
                      IN  IF "results" \in DOMAIN month_data
                          THEN [month_data EXCEPT
                                    !.results = convert_results_to_decimal(@)]
                          ELSE month_data]]

\* what is left of a document whose writing was interrupted
Truncated(document) == [truncated |-> document]

\* json.load of the content of a file: a document that was cut short is
\* malformed JSON
json_load(content) ==
    IF "truncated" \in DOMAIN content
    THEN [raised |-> "JSONDecodeError", data |-> NoValue]
    ELSE [raised |-> "none", data |-> content]

\* _validate_and_convert_data raises AttributeError, which its own except
\* clause does not catch: data, or the data of a year, has no items()
convert_raises(data) ==
    \/ ~IsDict(data)
    \/ \E t \in DOMAIN data : int(t) # None /\ ~IsDict(data[t])

\* backup_dir.glob(pattern): whether a file of the backups directory matches
glob(file, pattern) ==
    CASE pattern = "backup_*.json" -> file.name = "backup" /\ ~file.gz
      [] pattern = "backup_*.json*" -> file.name = "backup"

\* the loop of _recover_from_backup over backup_files[:3]
RECURSIVE recover_from(_)
recover_from(backup_files) ==
    IF backup_files = <<>>
    THEN [returned |-> FALSE, cache |-> NoValue]
    ELSE LET parsed == json_load(backup_files[1].content)
         IN  IF parsed.raised # "none" \/ convert_raises(parsed.data)
             THEN recover_from(Tail(backup_files))
             ELSE [returned |-> TRUE,
                   cache |-> validate_and_convert_data(parsed.data)]

\* DataManager._recover_from_backup; backups is the directory, newest first
recover_from_backup(backups) ==
    LET backup_files == SelectSeq(backups, LAMBDA f : glob(f, "backup_*.json"))
    IN  recover_from(SubSeq(backup_files, 1,
                            IF Len(backup_files) < 3 THEN Len(backup_files) ELSE 3))

\* DataManager._load_data: the cache it leaves
load_data(file, backups) ==
    IF ~file.exists THEN <<>>
    ELSE LET parsed == json_load(file.content)
         IN  IF parsed.raised = "JSONDecodeError" THEN <<>>
             ELSE IF convert_raises(parsed.data)
             THEN LET recovered == recover_from_backup(backups)
                  IN  IF recovered.returned THEN recovered.cache ELSE <<>>
             ELSE validate_and_convert_data(parsed.data)

\* convert_value on a value at a place where the cache can hold a Decimal
DecimalToStr(value) ==
    IF IsDecimal(value) THEN DecimalStr(value.decimal) ELSE value

\* convert_value on the results of a month: Decimal objects are where
\* _convert_results_to_decimal put them
ResultsToStr(results) ==
    [k \in DOMAIN results |->
         IF k \in decimal_fields THEN DecimalToStr(results[k])
         ELSE IF k \in {"electricity", "recurring"}
         THEN [j \in DOMAIN results[k] |-> DecimalToStr(results[k][j])]
         ELSE IF k = "occasional"
         THEN [i \in DOMAIN results[k] |->
                   [j \in DOMAIN results[k][i] |->
                        IF j \in {"total", "casa1", "casa2"}
                        THEN DecimalToStr(results[k][i][j])
                        ELSE results[k][i][j]]]
         ELSE results[k]]

\* DataManager._prepare_data_for_serialization
prepare_data_for_serialization(c) ==
    [y \in DOMAIN c |->
         [month_name \in DOMAIN c[y] |->
              IF "results" \in DOMAIN c[y][month_name]
              THEN [c[y][month_name] EXCEPT !.results = ResultsToStr(@)]
              ELSE c[y][month_name]]]

\* json.dump(serializable_data, ...): the keys of a JSON object are strings
json_dump(data) ==
    [t \in {ToString(y) : y \in DOMAIN data} |->
         data[CHOOSE y \in DOMAIN data : ToString(y) = t]]

\* convert_decimal on a dictionary of Decimal values
StrValues(dict) == [k \in DOMAIN dict |-> DecimalStr(dict[k])]

\* CalculationResult.to_dict
CalculationResult_to_dict(r) ==
    [electricity |-> StrValues(r.electricity),
     recurring |-> StrValues(r.recurring),
     occasional |->
         [i \in DOMAIN r.occasional |->
              [j \in DOMAIN r.occasional[i] |->
                   IF j \in {"total", "casa1", "casa2"}
                   THEN DecimalStr(r.occasional[i][j])
                   ELSE r.occasional[i][j]]],
     totals |-> StrValues(r.totals),
     balances |-> StrValues(r.balances)]

\* self._cache[year][month] = month_dict, self._cache[year] created if absent
SetMonth(c, year, month, month_dict) ==
    [y \in DOMAIN c \cup {year} |->
         IF y = year
         THEN LET year_data == IF year \in DOMAIN c THEN c[year] ELSE <<>>
              IN  [k \in DOMAIN year_data \cup {month} |->
                       IF k = month THEN month_dict ELSE year_data[k]]
         ELSE c[y]]

\* DataManager.save_month_data at time now; results is a CalculationResult
\* or None, and None has no to_dict: the exception is caught after the
\* year has been created
save_month_data(c, is_dirty, year, month, month_data, results, now) ==
    IF results = None
    THEN [cache |-> [y \in DOMAIN c \cup {year} |->
                         IF y \in DOMAIN c THEN c[y] ELSE <<>>],
          dirty |-> is_dirty, returned |-> FALSE]
    ELSE LET month_dict ==
                 [results |-> CalculationResult_to_dict(results),
                  modified_at |-> IsoFormat(now)]
                 @@ MonthData_to_dict(month_data)
         IN  [cache |-> SetMonth(c, year, month, month_dict),
              dirty |-> TRUE, returned |-> TRUE]

\* DataManager.delete_month
delete_month(c, is_dirty, year, month) ==
    IF year \in DOMAIN c /\ month \in DOMAIN c[year]
    THEN LET year_data == [k \in DOMAIN c[year] \ {month} |-> c[year][k]]
         IN  [cache |-> IF DOMAIN year_data = {}
                        THEN [y \in DOMAIN c \ {year} |-> c[y]]
                        ELSE [c EXCEPT ![year] = year_data],
              dirty |-> TRUE, returned |-> TRUE]
    ELSE [cache |-> c, dirty |-> is_dirty, returned |-> FALSE]

\* the month before month_number of year
PreviousMonth(year, month_number) ==
    IF month_number - 1 = 0
    THEN [year |-> year - 1, name |-> months[12]]
    ELSE [year |-> year, name |-> months[month_number - 1]]

\* DataManager.get_previous_balance, in cents
get_previous_balance(c, year, month_number) ==
    LET prev == PreviousMonth(year, month_number)
    IN  IF prev.year \in DOMAIN c /\ prev.name \in DOMAIN c[prev.year]
        THEN LET month_data == c[prev.year][prev.name]
                 results == Get(month_data, "results", <<>>)
                 balance == Get(results, "month_balance", Number(0))
             IN  IF "str" \in DOMAIN balance THEN balance.str
                 ELSE IF "number" \in DOMAIN balance THEN balance.number
                 ELSE IF IsDecimal(balance) THEN balance.decimal
                 ELSE 0
        ELSE 0

\* results.get('month_balance', 0) of a month of the cache, as the Decimal
\* that is added to the accumulated balance, in cents
balance_of(month_data) ==
    LET results == Get(month_data, "results", <<>>)
        balance == Get(results, "month_balance", Number(0))
    IN  IF "str" \in DOMAIN balance THEN balance.str
        ELSE IF "number" \in DOMAIN balance THEN balance.number
        ELSE IF IsDecimal(balance) THEN balance.decimal
        ELSE 0

\* the loop over months[i - 1 : n] of year y in get_accumulated_balance
RECURSIVE accumulate(_, _, _, _)
accumulate(c, y, i, n) ==
    IF i > n THEN 0
    ELSE (IF y \in DOMAIN c /\ months[i] \in DOMAIN c[y]
          THEN balance_of(c[y][months[i]]) ELSE 0)
         + accumulate(c, y, i + 1, n)

\* the loop "for y in range(max(2020, year - 5), year)", from year y on
RECURSIVE accumulate_years(_, _, _)
accumulate_years(c, y, year) ==
    IF y >= year THEN 0
    ELSE accumulate(c, y, 1, 12) + accumulate_years(c, y + 1, year)

\* DataManager.get_accumulated_balance(year, up_to_month), in cents, for
\* up_to_month in 1..12
get_accumulated_balance(c, year, up_to_month) ==
    accumulate_years(c, IF year - 5 > 2020 THEN year - 5 ELSE 2020, year)
    + accumulate(c, year, 1, up_to_month)

\* save_data writing straight into the data file, without a temporary file
save_data_in_place(c, is_dirty, file, temp, force, fault) ==
    IF ~is_dirty /\ ~force
    THEN [data_file |-> file, temp_file |-> temp, dirty |-> is_dirty,
          returned |-> TRUE]
    ELSE LET document == json_dump(prepare_data_for_serialization(c))
         IN  CASE fault = "none" ->
                    [data_file |-> File(document), temp_file |-> temp,
                     dirty |-> FALSE, returned |-> TRUE]
               [] fault = "open" ->
                    [data_file |-> file, temp_file |-> temp,
                     dirty |-> is_dirty, returned |-> FALSE]
               [] fault = "write" ->
                    [data_file |-> File(Truncated(document)), temp_file |-> temp,
                     dirty |-> is_dirty, returned |-> FALSE]
               [] fault = "replace" ->
                    [data_file |-> File(document), temp_file |-> temp,
                     dirty |-> is_dirty, returned |-> FALSE]

\* DataManager.save_data(force).  fault is where the file system fails:
\* "none", "open" (the temporary file cannot be opened), "write" (json.dump
\* raises after part of the document is written) or "replace" (the rename
\* fails).  The except branch unlinks the temporary file if it exists.
save_data(c, is_dirty, file, temp, force, fault) ==
    IF ~is_dirty /\ ~force
    THEN [data_file |-> file, temp_file |-> temp, dirty |-> is_dirty,
          returned |-> TRUE]
    ELSE LET document == json_dump(prepare_data_for_serialization(c))
             written == CASE fault = "open" -> temp
                          [] fault = "write" -> File(Truncated(document))
                          [] OTHER -> File(document)
         IN  IF fault = "none"
             THEN [data_file |-> written, temp_file |-> Absent,
                   dirty |-> FALSE, returned |-> TRUE]
             ELSE [data_file |-> file,
                   temp_file |-> IF written.exists THEN Absent ELSE written,
                   dirty |-> is_dirty, returned |-> FALSE]

\* DataManager.close(): pending changes are saved with force
close(c, is_dirty, file, temp, fault) ==
    IF is_dirty THEN save_data(c, is_dirty, file, temp, TRUE, fault)
    ELSE [data_file |-> file, temp_file |-> temp, dirty |-> is_dirty,
          returned |-> TRUE]

\* the years repair_data removes
invalid_years(c) == {year \in DOMAIN c : year < 2000 \/ year > 2100}

\* the months of a year repair_data removes
invalid_months(year_data) ==
    {month_name \in DOMAIN year_data :
         \/ \A i \in DOMAIN months : months[i] # month_name
         \/ ~IsDict(year_data[month_name])}

\* the sub-records repair_data adds to a month that lacks them
RequiredDefaults ==
    [electricity |-> [total_kwh |-> Number(0), casa2_kwh |-> Number(0),
                      total_bill |-> Number(0)],
     recurring_bills |-> [water |-> Number(0), internet |-> Number(0),
                          casa2_percentage |-> Number(6700)],
     payments |-> [casa1_paid |-> Number(0), casa2_paid |-> Number(0),
                   payment_method |-> NoText, notes |-> NoText],
     occasional_expenses |-> <<>>]

\* repair of a month that fills in the sub-records but no timestamps
repair_month_without_timestamps(month_data, now) ==
    month_data @@ RequiredDefaults

\* the month dictionary after repair_data at time now: what is missing is
\* added, what is there is kept
repair_month(month_data, now) ==
    month_data @@ RequiredDefaults
    @@ [created_at |-> IsoFormat(now), modified_at |-> IsoFormat(now)]

\* DataManager.repair_data at time now.  The messages are kept as a set:
\* their order is the iteration order of the dictionaries.
repair_data(c, is_dirty, now) ==
    LET years == DOMAIN c \ invalid_years(c)
        kept(y) == DOMAIN c[y] \ invalid_months(c[y])
        repaired ==
            [y \in years |->
                 [month_name \in kept(y) |-> repair_month(c[y][month_name], now)]]
        messages ==
            {[message |-> "Removed invalid year", year |-> y, month |-> "", field |-> ""] :
                 y \in invalid_years(c)}
            \cup UNION {{[message |-> "Removed invalid month", year |-> y,
                          month |-> month_name, field |-> ""] :
                             month_name \in invalid_months(c[y])} : y \in years}
            \cup UNION {UNION {{[message |-> "Added missing", year |-> y,
                                 month |-> month_name, field |-> f] :
                                    f \in DOMAIN RequiredDefaults
                                          \ DOMAIN c[y][month_name]} :
                                  month_name \in kept(y)} : y \in years}
        repairs_made ==
            \/ messages # {}
            \/ \E y \in years : \E month_name \in kept(y) :
                   ~({"created_at", "modified_at"} \subseteq DOMAIN c[y][month_name])
    IN  [cache |-> repaired,
         dirty |-> is_dirty \/ repairs_made,
         returned |->
             [success |-> TRUE,
              messages |->
                  IF repairs_made
                  THEN messages
                       \cup {[message |-> "Data repairs completed successfully",
                              year |-> 0, month |-> "", field |-> ""]}
                  ELSE messages]]

\* _check_data_integrity: a month that counts as corrupted
corrupted_month(month_data) ==
    \/ ~IsDict(month_data)
    \/ ~({"electricity", "recurring_bills", "payments"} \subseteq DOMAIN month_data)
    \/ "results" \in DOMAIN month_data /\ ~IsDict(month_data.results)

\* the (year, month) keys of the cache
month_keys(c) == UNION {{<<y, month_name>> : month_name \in DOMAIN c[y]} : y \in DOMAIN c}

\* the last branch of _check_data_integrity: corrupted_months / total_months
\* < 0.1, a float comparison that is exact for these counts
classification_accepting_a_tenth(total_months, corrupted_months) ==
    IF total_months = 0 THEN "empty"
    ELSE IF corrupted_months = 0 THEN "healthy"
    ELSE IF 10 * corrupted_months <= total_months THEN "minor_issues"
    ELSE "corrupted"

classification(total_months, corrupted_months) ==
    IF total_months = 0 THEN "empty"
    ELSE IF corrupted_months = 0 THEN "healthy"
    ELSE IF 10 * corrupted_months < total_months THEN "minor_issues"
    ELSE "corrupted"

\* DataManager._check_data_integrity.  A year outside 2000..2100 ends the
\* walk at once.  (The keys of the cache are integers and its values are
\* dictionaries of dictionaries, so nothing raises and 'unknown' is not
\* returned.)
check_data_integrity(c) ==
    IF \E y \in DOMAIN c : y < 2000 \/ y > 2100 THEN "corrupted"
    ELSE classification(
             Cardinality(month_keys(c)),
             Cardinality({k \in month_keys(c) : corrupted_month(c[k[1]][k[2]])}))

\* DataManager.get_data_statistics, without the size and the time of the
\* last save
get_data_statistics(c) ==
    [total_years |-> Cardinality(DOMAIN c),
     total_months |-> Cardinality(month_keys(c)),
     years_range |-> IF DOMAIN c = {} THEN <<>>
                     ELSE <<CHOOSE y \in DOMAIN c : \A z \in DOMAIN c : y <= z,
                            CHOOSE y \in DOMAIN c : \A z \in DOMAIN c : y >= z>>,
     integrity_status |-> check_data_integrity(c)]

\* _optimize_month_data raises TypeError at round(value, 2): an amount, or a
\* fixed value, of an occasional expense that is a string or None
optimize_raises(c) ==
    \E k \in month_keys(c) :
        /\ "occasional_expenses" \in DOMAIN c[k[1]][k[2]]
        /\ \E i \in DOMAIN c[k[1]][k[2]].occasional_expenses :
               LET expense == c[k[1]][k[2]].occasional_expenses[i]
               IN  \E field \in {"amount", "casa1_value", "casa2_value"} \cap DOMAIN expense :
                       DOMAIN expense[field] \cap {"number", "decimal"} = {}

\* DataManager.optimize_data, without the sizes.  The numbers of the cache
\* are whole cents here, which round(value, 2) leaves as they are.
optimize_data(c, is_dirty) ==
    IF optimize_raises(c)
    THEN [cache |-> c, dirty |-> is_dirty, returned |-> [success |-> FALSE]]
    ELSE [cache |-> c, dirty |-> TRUE,
          returned |-> [success |-> TRUE,
                        months_optimized |-> Cardinality(month_keys(c))]]

(***************************************************************************)
(* SpecStore: a DataManager built on a data file that is absent, healthy   *)
(* or damaged, and then used through its operations, one call at a time.   *)
(***************************************************************************)
\* the month record and the results that are saved
SavedMonth ==
    MonthData(2024, Word, ElectricityData(3, 2, 5, None),
              RecurringBills(3, 1, 0, 6700), <<>>, Payment(1, 2))

ResultWithBalance(b) ==
    CalculationResult(
        [totals |-> [total_expenses |-> 9, casa1_should_pay |-> 4,
                     casa2_should_pay |-> 5],
         balances |-> [month_balance |-> b, previous_balance |-> 0,
                       final_house1 |-> 0 - b, final_house2 |-> b]]).obj

HealthyDocument ==
    json_dump(prepare_data_for_serialization(
        save_month_data(<<>>, FALSE, 2024, "Dezembro", SavedMonth,
                        ResultWithBalance(2), 1).cache))

DamagedDocument ==
    ("1999" :> ("Janeiro" :> HealthyDocument["2024"]["Dezembro"]))
    @@ ("2024" :> (("Foo" :> HealthyDocument["2024"]["Dezembro"])
                   @@ ("Fevereiro" :>
                          [electricity |-> [total_kwh |-> Number(3),
                                            casa2_kwh |-> Number(2),
                                            total_bill |-> Number(5)],
                           occasional_expenses |-> <<[amount |-> DecimalStr(3)]>>,
                           results |-> [month_balance |-> DecimalStr(4)]])
                   @@ ("Abril" :> Number(7))))
    @@ ("abc" :> <<>>)

\* a data file whose months keep month_balance at the top level of results
LegacyDocument ==
    ("2019" :> ("Dezembro" :> [results |-> [month_balance |-> DecimalStr(3)]]))
    @@ ("2023" :> ("Janeiro" :> [results |-> [month_balance |-> Number(1)]]))
    @@ ("2024" :> (("Janeiro" :> [results |-> [month_balance |-> DecimalStr(-2)]])
                   @@ ("Fevereiro" :> [results |-> [month_balance |-> DecimalStr(4)]])))

\* a data file whose year data is no dictionary
BrokenDocument == ("2024" :> Number(7))

\* a copy of a data file in the backups directory
CopiedBackup(t) ==
    [name |-> "backup", type |-> "copy", timestamp |-> t, gz |-> FALSE,
     content |-> LegacyDocument]

\* the data file and the backups directory the DataManager is built on
InitStore ==
    /\ op = "idle" /\ args = <<>> /\ returned = NoValue /\ raised = "none"
    /\ result = NoValue /\ vresult = ValidationResult
    /\ month_record = NoValue
    /\ lock = "none" /\ ui = "out" /\ worker = NoValue /\ instants = {}
    /\ config = NoValue /\ window = NoValue
    /\ \/ /\ data_file \in {Absent, File(HealthyDocument), File(DamagedDocument),
                            File(LegacyDocument)}
          /\ backup_dir = <<>>
       \/ /\ data_file = File(BrokenDocument)
          /\ backup_dir = <<CopiedBackup(0)>>
    /\ temp_file \in {Absent, File(Truncated(HealthyDocument))}
    /\ cache = load_data(data_file, backup_dir)
    /\ dirty = FALSE

SaveMonthData ==
    /\ op = "idle"
    /\ \E year \in {2024}, month \in {"Janeiro", "Dezembro"},
          results \in {ResultWithBalance(2), ResultWithBalance(-3), None} :
           LET out == save_month_data(cache, dirty, year, month, SavedMonth, results, 2)
           IN  /\ Call("save_month_data",
                       [year |-> year, month |-> month, month_data |-> SavedMonth,
                        results |-> results],
                       out.returned, "none", NoValue)
               /\ cache' = out.cache
               /\ dirty' = out.dirty
               /\ UNCHANGED <<vresult, data_file, temp_file>>

DeleteMonth ==
    /\ op = "idle"
    /\ \E year \in {2024}, month \in {"Janeiro", "Dezembro", "Fevereiro"} :
           LET out == delete_month(cache, dirty, year, month)
           IN  /\ Call("delete_month", [year |-> year, month |-> month],
                       out.returned, "none", NoValue)
               /\ cache' = out.cache
               /\ dirty' = out.dirty
               /\ UNCHANGED <<vresult, data_file, temp_file>>

GetPreviousBalance ==
    /\ op = "idle"
    /\ \E year \in {2024, 2025}, month_number \in {1, 2, 3} :
           /\ Call("get_previous_balance",
                   [year |-> year, month_number |-> month_number],
                   get_previous_balance(cache, year, month_number), "none", NoValue)
           /\ UNCHANGED <<vresult, store_vars>>

GetAccumulatedBalance ==
    /\ op = "idle"
    /\ \E year \in {2004, 2024, 2025}, up_to_month \in {1, 2, 12} :
           /\ Call("get_accumulated_balance",
                   [year |-> year, up_to_month |-> up_to_month],
                   get_accumulated_balance(cache, year, up_to_month), "none", NoValue)
           /\ UNCHANGED <<vresult, store_vars>>

\* save_data, also straight after a restore_backup
SaveData ==
    /\ op \in {"idle", "restore_backup"}
    /\ \E force \in BOOLEAN, fault \in {"none", "open", "write", "replace"} :
           LET out == save_data(cache, dirty, data_file, temp_file, force, fault)
           IN  /\ Call("save_data", [force |-> force, fault |-> fault],
                       out.returned, "none", NoValue)
               /\ data_file' = out.data_file
               /\ temp_file' = out.temp_file
               /\ dirty' = out.dirty
               /\ UNCHANGED <<vresult, cache>>

\* repair_data, also straight after another repair_data, whose outcome is
\* then kept in the arguments as earlier
RepairData ==
    /\ op \in {"idle", "repair_data"}
    /\ \E now \in {2, 3} :
           LET out == repair_data(cache, dirty, now)
           IN  /\ op' = "repair_data"
               /\ args' = [earlier |-> IF op = "repair_data" THEN Some(returned)
                                       ELSE None]
               /\ returned' = out.returned
               /\ raised' = "none"
               /\ cache' = out.cache
               /\ dirty' = out.dirty
               /\ UNCHANGED <<result, vresult, data_file, temp_file, other_vars>>

GetDataStatistics ==
    /\ op = "idle"
    /\ Call("get_data_statistics", <<>>, get_data_statistics(cache), "none", NoValue)
    /\ UNCHANGED <<vresult, store_vars>>

OptimizeData ==
    /\ op = "idle"
    /\ LET out == optimize_data(cache, dirty)
       IN  /\ Call("optimize_data", <<>>, out.returned, "none", NoValue)
           /\ cache' = out.cache
           /\ dirty' = out.dirty
           /\ UNCHANGED <<vresult, data_file, temp_file>>

NextStore ==
    \/ SaveMonthData
    \/ DeleteMonth
    \/ GetPreviousBalance
    \/ GetAccumulatedBalance
    \/ SaveData
    \/ RepairData
    \/ OptimizeData
    \/ GetDataStatistics
    \/ Return

SpecStore == InitStore /\ [][NextStore]_vars

(***************************************************************************)
(* The claims about the storage layer, checked under SpecStore.            *)
(***************************************************************************)
\* the month-balance of the CalculationResult that save_month_data stored
StoredMonthBalance(month_data) ==
    Get(month_data.results.balances, "month_balance", DecimalStr(0)).str

\* C5: after save_month_data stored a result whose month-balance is b,
\* get_previous_balance for the following calendar month returns b; it
\* returns 0 when the preceding calendar month has no stored entry.
C5_PreviousBalanceIsStoredBalance ==
    op = "get_previous_balance" =>
        LET prev == PreviousMonth(args.year, args.month_number)
        IN  IF prev.year \in DOMAIN cache /\ prev.name \in DOMAIN cache[prev.year]
            THEN LET month_data == cache[prev.year][prev.name]
                 IN  ("results" \in DOMAIN month_data
                      /\ "balances" \in DOMAIN month_data.results)
                         => returned = StoredMonthBalance(month_data)
            ELSE returned = 0

\* C6 as stated: save_data either replaces the data file with the complete
\* serialization of the cache and clears the dirty flag, or, on a failure,
\* leaves the data file as it was, removes the temporary file, keeps the
\* dirty flag set and returns False.
C6_SaveReplacesOrFails ==
    [][op' = "save_data" =>
           \/ /\ data_file' = File(json_dump(prepare_data_for_serialization(cache)))
              /\ ~dirty'
           \/ /\ data_file' = data_file
              /\ ~temp_file'.exists
              /\ dirty'
              /\ returned' = FALSE]_vars

\* C6, amended: when the dirty flag is set or force is given, save_data
\* either replaces the data file with the complete serialization of the
\* cache, clears the dirty flag and returns True, or, on a failure while
\* writing or replacing, leaves the data file as it was, removes the
\* temporary file, leaves the dirty flag as it was and returns False; when
\* the flag is clear and force is not given it returns True and touches
\* neither file nor flag.
C6_SaveWhenDirtyOrForced ==
    [][op' = "save_data" =>
           /\ cache' = cache
           /\ IF ~dirty /\ ~args'.force
              THEN returned' = TRUE /\ UNCHANGED <<data_file, temp_file, dirty>>
              ELSE \/ /\ args'.fault = "none"
                      /\ data_file'
                             = File(json_dump(prepare_data_for_serialization(cache)))
                      /\ ~temp_file'.exists
                      /\ ~dirty'
                      /\ returned' = TRUE
                   \/ /\ args'.fault # "none"
                      /\ data_file' = data_file
                      /\ ~temp_file'.exists
                      /\ dirty' = dirty
                      /\ returned' = FALSE]_vars

\* a save that failed while writing, over a data file of an earlier state
C6_Witness ==
    /\ op = "save_data" /\ args.fault = "write"
    /\ returned = FALSE
    /\ dirty
    /\ data_file.exists
    /\ data_file.content # json_dump(prepare_data_for_serialization(cache))
    /\ ~temp_file.exists

\* C7: after repair_data has run once, an immediately following repair_data
\* changes nothing in the cache, reports no repair and does not set the
\* dirty flag.
C7_RepairIsIdempotent ==
    [][(op = "repair_data" /\ op' = "repair_data") =>
           /\ cache' = cache
           /\ dirty' = dirty
           /\ returned'.success
           /\ returned'.messages = {}]_vars

\* a second repair that follows one that made repairs
C7_Witness ==
    /\ op = "repair_data"
    /\ args.earlier # None
    /\ args.earlier[1].messages # {}
    /\ dirty
    /\ returned.messages = {}

\* the month-balance cached with a stored month: the one of the results
\* CalculationResult.to_dict wrote, or the one at the top level of the results
\* of a month read from a data file
CachedMonthBalance(month_data) ==
    LET results == Get(month_data, "results", <<>>)
    IN  IF "balances" \in DOMAIN results
        THEN Get(results.balances, "month_balance", DecimalStr(0)).str
        ELSE balance_of(month_data)

\* the sum of the cached month-balances of the months in S, a set of
\* <<year, month index>> pairs
RECURSIVE SumOfBalances(_)
SumOfBalances(S) ==
    IF S = {} THEN 0
    ELSE LET p == CHOOSE q \in S : TRUE
         IN  CachedMonthBalance(cache[p[1]][months[p[2]]]) + SumOfBalances(S \ {p})

\* the stored months of the years from..to with a month index of at most n
StoredMonths(from, to, n) ==
    {p \in (from..to) \X (1..n) :
        p[1] \in DOMAIN cache /\ months[p[2]] \in DOMAIN cache[p[1]]}

\* C20: for a requested year in [2000,2100] and a month index m in 1..12,
\* get_accumulated_balance(year, m) is the sum of the cached month-balance of
\* every stored month of the five years before the requested year plus the
\* months 1..m of the requested year.
C20_AccumulatedBalanceOfWindow ==
    op = "get_accumulated_balance" =>
        returned = SumOfBalances(StoredMonths(args.year - 5, args.year - 1, 12)
                                 \cup StoredMonths(args.year, args.year,
                                                   args.up_to_month))


\* the index a data file decodes to, as _load_data decodes it
Decoded(file) == load_data(file, <<>>)

\* C25: whenever the dirty flag is clear and the data file exists, the
\* file decodes to the index that is in memory: the same years, the same
\* months and, once written out, the same values.
C25_CleanStoreMatchesFile ==
    (~dirty /\ data_file.exists) =>
        /\ DOMAIN Decoded(data_file) = DOMAIN cache
        /\ prepare_data_for_serialization(Decoded(data_file))
               = prepare_data_for_serialization(cache)

\* C26: a save_month_data that returns False leaves the index, the set of
\* its years included, and the dirty flag as they were before the call.
C26_FailedSaveChangesNothing ==
    [][(op' = "save_month_data" /\ ~returned') =>
          (cache' = cache /\ dirty' = dirty)]_vars

(***************************************************************************)
(* MonthData as an object that is edited (expense_models.py): its expense  *)
(* list, its modification timestamp, its locked flag and its calculation   *)
(* cache.  An expense of the list carries its id.                          *)
(***************************************************************************)
MaxExpenses == 2        \* expenses are added to lists of fewer than MaxExpenses

\* MonthData.add_occasional_expense(expense) at time now
add_occasional_expense(m, expense, now) ==
    [m EXCEPT !.occasional_expenses = Append(@, expense),
              !.modified_at = now,
              !.calculation_cache = None]

\* a removal that leaves the cached result in place
remove_occasional_expense_keeps_cache(m, expense_id, now) ==
    LET expenses == m.occasional_expenses
        found == {i \in 1..Len(expenses) : expenses[i].id = expense_id}
    IN  IF found = {}
        THEN [self |-> m, returned |-> FALSE]
        ELSE LET i == CHOOSE j \in found : \A k \in found : j <= k
             IN  [self |-> [m EXCEPT
                               !.occasional_expenses =
                                   SubSeq(expenses, 1, i - 1)
                                   \o SubSeq(expenses, i + 1, Len(expenses)),
                               !.modified_at = now],
                  returned |-> TRUE]

\* MonthData.remove_occasional_expense(expense_id) at time now: the first
\* expense with that id is deleted
remove_occasional_expense(m, expense_id, now) ==
    LET expenses == m.occasional_expenses
        found == {i \in 1..Len(expenses) : expenses[i].id = expense_id}
    IN  IF found = {}
        THEN [self |-> m, returned |-> FALSE]
        ELSE LET i == CHOOSE j \in found : \A k \in found : j <= k
             IN  [self |-> [m EXCEPT
                               !.occasional_expenses =
                                   SubSeq(expenses, 1, i - 1)
                                   \o SubSeq(expenses, i + 1, Len(expenses)),
                               !.modified_at = now,
                               !.calculation_cache = None],
                  returned |-> TRUE]

\* MonthData.invalidate_cache() at time now
invalidate_cache(m, now) ==
    [m EXCEPT !.calculation_cache = None, !.modified_at = now]

\* OccasionalExpense(id=id, description=..., amount=amount)
ExpenseWithId(id, amount) ==
    [id |-> id] @@ OccasionalExpense(Word, amount, PERCENTAGE, 0, 0, None)

\* what a calculation left in calculation_cache
CachedResult == Some(CalculationResult_to_dict(ResultWithBalance(2)))

(***************************************************************************)
(* SpecMonth: a month record, locked or not, with or without a cached      *)
(* result, edited through its methods and by assignment to its fields.     *)
(***************************************************************************)
InitMonth ==
    /\ op = "idle" /\ args = <<>> /\ returned = NoValue /\ raised = "none"
    /\ result = NoValue /\ vresult = ValidationResult
    /\ cache = <<>> /\ dirty = FALSE /\ data_file = Absent /\ temp_file = Absent
    /\ backup_dir = <<>> /\ lock = "none" /\ ui = "out" /\ worker = NoValue /\ instants = {}
    /\ config = NoValue /\ window = NoValue
    /\ \E n \in 0..1, locked \in BOOLEAN, cached \in {None, CachedResult} :
           month_record =
               [MonthData(2024, Word, ElectricityData(3, 2, 5, None),
                          RecurringBills(3, 1, 0, 5000),
                          SubSeq(<<ExpenseWithId("a", 3)>>, 1, n), Payment(1, 2))
                   EXCEPT !.is_locked = locked, !.calculation_cache = cached]

\* a call of a method of the month record: the object before the call is
\* kept in the arguments as self
MethodCall(name, arguments, self, value) ==
    /\ op' = name /\ args' = arguments /\ returned' = value /\ raised' = "none"
    /\ month_record' = self
    /\ UNCHANGED <<result, vresult, store_vars, backup_dir, thread_vars, app_vars>>

AddOccasionalExpense ==
    /\ op = "idle"
    /\ Len(month_record.occasional_expenses) < MaxExpenses
    /\ \E id \in {"a", "b"}, amount \in {3, 5}, now \in {2, 3} :
           MethodCall("add_occasional_expense",
                      [self |-> month_record, expense |-> ExpenseWithId(id, amount),
                       now |-> now],
                      add_occasional_expense(month_record,
                                             ExpenseWithId(id, amount), now),
                      None)

RemoveOccasionalExpense ==
    /\ op = "idle"
    /\ \E id \in {"a", "b", "c"}, now \in {2, 3} :
           LET out == remove_occasional_expense(month_record, id, now)
           IN  MethodCall("remove_occasional_expense",
                          [self |-> month_record, expense_id |-> id, now |-> now],
                          out.self, out.returned)

InvalidateCache ==
    /\ op = "idle"
    /\ \E now \in {2, 3} :
           MethodCall("invalidate_cache", [self |-> month_record, now |-> now],
                      invalidate_cache(month_record, now), None)

\* month_data.is_locked = locked
SetLocked ==
    /\ op = "idle"
    /\ \E locked \in BOOLEAN :
           MethodCall("is_locked", [self |-> month_record, value |-> locked],
                      [month_record EXCEPT !.is_locked = locked], None)

\* month_data.calculation_cache = the result of a calculation
SetCalculationCache ==
    /\ op = "idle"
    /\ MethodCall("calculation_cache", [self |-> month_record],
                  [month_record EXCEPT !.calculation_cache = CachedResult], None)

\* month_data.validate()
ValidateMonth ==
    /\ op = "idle"
    /\ MethodCall("validate", [self |-> month_record], month_record,
                  MonthData_validate(month_record))

NextMonth ==
    \/ AddOccasionalExpense
    \/ RemoveOccasionalExpense
    \/ InvalidateCache
    \/ SetLocked
    \/ SetCalculationCache
    \/ ValidateMonth
    \/ Return

SpecMonth == InitMonth /\ [][NextMonth]_vars

(***************************************************************************)
(* The claims about the month record, checked under SpecMonth.             *)
(***************************************************************************)
\* C13: once the locked flag of a month record is set, add_occasional_expense
\* and remove_occasional_expense are rejected: the expense list, the cached
\* result and the modification timestamp stay as they were.
C13_LockedMonthRejectsExpenseChanges ==
    [][(/\ op' \in {"add_occasional_expense", "remove_occasional_expense"}
        /\ args'.self.is_locked) =>
           /\ month_record'.occasional_expenses = args'.self.occasional_expenses
           /\ month_record'.calculation_cache = args'.self.calculation_cache
           /\ month_record'.modified_at = args'.self.modified_at]_vars

\* C22: on a month record that is not locked, every add_occasional_expense
\* and every remove_occasional_expense that returns True sets the cached
\* calculation result to None and the modification timestamp to the time of
\* the call; a remove_occasional_expense with an id no expense has returns
\* False and leaves the record as it was.
C22_ExpenseChangeInvalidatesCache ==
    /\ (op = "add_occasional_expense" /\ ~args.self.is_locked) =>
           /\ month_record.calculation_cache = None
           /\ month_record.modified_at = args.now
    /\ op = "remove_occasional_expense" =>
           /\ (returned /\ ~args.self.is_locked) =>
                  /\ month_record.calculation_cache = None
                  /\ month_record.modified_at = args.now
           /\ (\A i \in DOMAIN args.self.occasional_expenses :
                   args.self.occasional_expenses[i].id # args.expense_id) =>
                  /\ ~returned
                  /\ month_record = args.self

\* an expense was removed from an unlocked record that held a cached result
\* and an older timestamp
C22_Witness ==
    /\ op = "remove_occasional_expense"
    /\ returned
    /\ ~args.self.is_locked
    /\ args.self.calculation_cache # None
    /\ args.self.modified_at # args.now
    /\ month_record.calculation_cache = None

(***************************************************************************)
(* BackupManager (backup_manager.py).  A file of the backups directory is  *)
(* the record of its path (name, type, timestamp, gz) and of its content;  *)
(* the directory is the sequence of its files, the most recently written   *)
(* first.  A backup holds the metadata and the data of the source file.    *)
(***************************************************************************)
max_backups == 3        \* BackupManager(max_backups=3)

\* the SHA256 of the canonical JSON text of data
calculate_checksum(data) == [sha256 |-> data]

Path(file) == <<file.name, file.type, file.timestamp, file.gz>>

\* the directory after file is written: a file of the same path is replaced
Written(backups, file) ==
    <<file>> \o SelectSeq(backups, LAMBDA f : Path(f) # Path(file))

\* BackupManager._cleanup_old_backups: of the files that match
\* backup_*.json*, those after the first n are removed
RECURSIVE cleanup_old_backups(_, _)
cleanup_old_backups(backups, n) ==
    IF backups = <<>> THEN <<>>
    ELSE IF ~glob(backups[1], "backup_*.json*")
    THEN <<backups[1]>> \o cleanup_old_backups(Tail(backups), n)
    ELSE IF n > 0
    THEN <<backups[1]>> \o cleanup_old_backups(Tail(backups), n - 1)
    ELSE cleanup_old_backups(Tail(backups), 0)

\* BackupManager(compress=compress).create_backup(source_file, backup_type)
\* at time now
create_backup(source_file, backups, backup_type, compress, now) ==
    IF ~source_file.exists
    THEN [success |-> FALSE, message |-> "Source file does not exist",
          backup_dir |-> backups]
    ELSE LET parsed == json_load(source_file.content)
             backup_data ==
                 [metadata |-> [created_at |-> IsoFormat(now),
                                backup_type |-> backup_type,
                                version |-> "2.0",
                                checksum |-> calculate_checksum(parsed.data)],
                  data |-> parsed.data]
             backup_file ==
                 [name |-> "backup", type |-> backup_type, timestamp |-> now,
                  gz |-> compress, content |-> backup_data]
         IN  IF parsed.raised # "none"
             THEN [success |-> FALSE, message |-> "Failed to create backup",
                   backup_dir |-> backups]
             ELSE [success |-> TRUE, message |-> "backup_file",
                   backup_dir |-> cleanup_old_backups(Written(backups, backup_file),
                                                      max_backups)]

\* restore_data with the target written before its snapshot is taken
restore_data_overwrites_first(data, backups, target_file, now, fault) ==
    LET written == CASE fault = "open" -> target_file
                     [] fault = "write" -> File(Truncated(data))
                     [] OTHER -> File(data)
        snapshot == [name |-> "pre_restore", type |-> "", timestamp |-> now,
                     gz |-> FALSE, content |-> written.content]
    IN  IF fault \in {"open", "write"} \/ (fault = "copy" /\ target_file.exists)
        THEN [success |-> FALSE, message |-> "Failed to restore backup",
              data_file |-> written, backup_dir |-> backups]
        ELSE [success |-> TRUE, message |-> "Successfully restored from backup",
              data_file |-> written,
              backup_dir |-> IF target_file.exists
                             THEN Written(backups, snapshot) ELSE backups]

\* what restore_backup does once the backup is accepted: the snapshot of the
\* target, then the write of the data.  fault is where the file system
\* fails: "none", "copy" (shutil.copy2 raises), "open" (the target cannot be
\* opened for writing) or "write" (json.dump raises after a partial write).
restore_data(data, backups, target_file, now, fault) ==
    LET snapshot == [name |-> "pre_restore", type |-> "", timestamp |-> now,
                     gz |-> FALSE, content |-> target_file.content]
        copied == IF target_file.exists THEN Written(backups, snapshot)
                  ELSE backups
    IN  CASE fault = "copy" /\ target_file.exists ->
               [success |-> FALSE, message |-> "Failed to restore backup",
                data_file |-> target_file, backup_dir |-> backups]
          [] fault = "open" ->
               [success |-> FALSE, message |-> "Failed to restore backup",
                data_file |-> target_file, backup_dir |-> copied]
          [] fault = "write" ->
               [success |-> FALSE, message |-> "Failed to restore backup",
                data_file |-> File(Truncated(data)), backup_dir |-> copied]
          [] OTHER ->
               [success |-> TRUE, message |-> "Successfully restored from backup",
                data_file |-> File(data), backup_dir |-> copied]

\* BackupManager.restore_backup(backup_file, target_file, verify_checksum) at
\* time now; backup_file is None when the file does not exist
restore_backup(backup_file, backups, target_file, verify_checksum, now, fault) ==
    LET refused(message) ==
            [success |-> FALSE, message |-> message,
             data_file |-> target_file, backup_dir |-> backups]
        parsed == json_load(backup_file[1].content)
        backup_data == parsed.data
        metadata == Get(backup_data, "metadata", <<>>)
    IN  IF backup_file = None THEN refused("Backup file does not exist")
        ELSE IF parsed.raised # "none" THEN refused("Failed to restore backup")
        ELSE IF ~IsDict(backup_data) \/ "data" \notin DOMAIN backup_data
        THEN refused("Invalid backup file format: missing data section")
        ELSE IF /\ verify_checksum
                /\ "checksum" \in DOMAIN metadata
                /\ calculate_checksum(backup_data.data) # metadata.checksum
        THEN refused("Checksum verification failed")
        ELSE restore_data(backup_data.data, backups, target_file, now, fault)

(***************************************************************************)
(* SpecBackup: a data file and a backups directory on which a DataManager  *)
(* is constructed (its load), backups are created and backups restored.    *)
(***************************************************************************)
\* files found in the backups directory: a copy of a data file, a file cut
\* short, a backup as create_backup writes it, plain and compressed, and a
\* backup whose data no longer matches its checksum
TruncatedBackup(t) ==
    [name |-> "backup", type |-> "auto", timestamp |-> t, gz |-> FALSE,
     content |-> Truncated(LegacyDocument)]

CreatedBackup(t, compress) ==
    create_backup(File(LegacyDocument), <<>>, "auto", compress, t).backup_dir[1]

CorruptedBackup(t) ==
    [CreatedBackup(t, FALSE) EXCEPT !.content.data = HealthyDocument]

InitBackup ==
    /\ op = "idle" /\ args = <<>> /\ returned = NoValue /\ raised = "none"
    /\ result = NoValue /\ vresult = ValidationResult
    /\ month_record = NoValue
    /\ lock = "none" /\ ui = "out" /\ worker = NoValue /\ instants = {}
    /\ config = NoValue /\ window = NoValue
    /\ cache = <<>> /\ dirty = FALSE /\ temp_file = Absent
    /\ data_file \in {Absent, File(HealthyDocument),
                      File(Truncated(HealthyDocument)), File(BrokenDocument)}
    /\ backup_dir \in {<<>>,
                       <<CopiedBackup(1)>>,
                       <<TruncatedBackup(1), CopiedBackup(0)>>,
                       <<TruncatedBackup(1), TruncatedBackup(0),
                         TruncatedBackup(-1), CopiedBackup(-2)>>,
                       <<CorruptedBackup(1), CreatedBackup(0, TRUE)>>,
                       <<CreatedBackup(1, FALSE), CopiedBackup(0)>>}

\* DataManager(data_file): the load of its constructor
LoadData ==
    /\ op = "idle"
    /\ op' = "load_data" /\ args' = <<>> /\ returned' = NoValue /\ raised' = "none"
    /\ cache' = load_data(data_file, backup_dir)
    /\ dirty' = FALSE
    /\ UNCHANGED <<result, vresult, data_file, temp_file, month_record, app_vars,
                   backup_dir, thread_vars>>

CreateBackup ==
    /\ op = "idle"
    /\ \E compress \in BOOLEAN, now \in {2} :
           LET out == create_backup(data_file, backup_dir, "manual", compress, now)
           IN  /\ op' = "create_backup"
               /\ args' = [compress |-> compress, now |-> now]
               /\ returned' = [success |-> out.success, message |-> out.message]
               /\ raised' = "none"
               /\ backup_dir' = out.backup_dir
               /\ UNCHANGED <<result, vresult, store_vars, month_record, app_vars,
                              thread_vars>>

RestoreBackup ==
    /\ op = "idle"
    /\ \E i \in 0..Len(backup_dir), verify_checksum \in BOOLEAN, now \in {3},
          fault \in {"none", "copy", "open", "write"} :
           LET backup_file == IF i = 0 THEN None ELSE Some(backup_dir[i])
               out == restore_backup(backup_file, backup_dir, data_file,
                                     verify_checksum, now, fault)
           IN  /\ op' = "restore_backup"
               /\ args' = [backup_file |-> backup_file,
                           verify_checksum |-> verify_checksum, now |-> now,
                           fault |-> fault]
               /\ returned' = [success |-> out.success, message |-> out.message]
               /\ raised' = "none"
               /\ data_file' = out.data_file
               /\ backup_dir' = out.backup_dir
               /\ UNCHANGED <<result, vresult, cache, dirty, temp_file,
                              month_record, app_vars, thread_vars>>

NextBackup ==
    \/ LoadData
    \/ CreateBackup
    \/ RestoreBackup
    \/ Return

SpecBackup == InitBackup /\ [][NextBackup]_vars

(***************************************************************************)
(* The claims about loading and backups, checked under SpecBackup.         *)
(***************************************************************************)
\* the data a backup holds: the data section of a backup that create_backup
\* wrote, the document of a copy of the data file
BackupData(content) ==
    IF IsDict(content) /\ "data" \in DOMAIN content THEN content.data ELSE content

\* the backup can be loaded: it parses and holds the data of a store
Loads(file) ==
    /\ json_load(file.content).raised = "none"
    /\ ~convert_raises(BackupData(file.content))

\* the up-to-three most recent backups, newest first
RecentBackups ==
    LET backup_files == SelectSeq(backup_dir, LAMBDA f : f.name = "backup")
    IN  SubSeq(backup_files, 1,
               IF Len(backup_files) < 3 THEN Len(backup_files) ELSE 3)

\* C11: when the data file exists but is malformed JSON, the load tries the
\* up-to-three most recent backups, newest first, adopts the data of the
\* first one that loads, and ends with an empty store only if none loads.
C11_MalformedFileRecoversFromBackup ==
    (/\ op = "load_data"
     /\ data_file.exists
     /\ json_load(data_file.content).raised = "JSONDecodeError") =>
        LET loading == {i \in 1..Len(RecentBackups) : Loads(RecentBackups[i])}
        IN  IF loading = {}
            THEN cache = <<>>
            ELSE LET first == CHOOSE i \in loading : \A j \in loading : i <= j
                 IN  cache = validate_and_convert_data(
                                 BackupData(RecentBackups[first].content))

\* the backup file holds a checksum that its data does not have
ChecksumMismatch(backup_file) ==
    /\ backup_file # None
    /\ json_load(backup_file[1].content).raised = "none"
    /\ IsDict(backup_file[1].content)
    /\ {"data", "metadata"} \subseteq DOMAIN backup_file[1].content
    /\ "checksum" \in DOMAIN backup_file[1].content.metadata
    /\ calculate_checksum(backup_file[1].content.data)
           # backup_file[1].content.metadata.checksum

\* the directory holds the pre-restore snapshot, taken at time now, of file
HasSnapshot(backups, file, now) ==
    \E i \in 1..Len(backups) :
        /\ backups[i].name = "pre_restore"
        /\ backups[i].timestamp = now
        /\ backups[i].content = file.content

can_acquire_any_owner(owner, thread) == TRUE

can_acquire(owner, thread) == owner \in {"none", thread}

\* the worker thread outside save_data, its last return value kept
WorkerIdle(value) ==
    [pc |-> "idle", keys |-> {}, serializable_data |-> <<>>, returned |-> value]

\* the positions of save_data inside "with self._lock"
Holding == {"check", "prepare", "write", "replace"}

\* the key convert_value reads next: a dictionary is iterated in the order
\* of insertion, here the order of the years
next_key(left) == CHOOSE y \in left : \A z \in left : y <= z

InitThreads ==
    /\ op = "idle" /\ args = <<>> /\ returned = NoValue /\ raised = "none"
    /\ result = NoValue /\ vresult = NoValue
    /\ month_record = NoValue /\ backup_dir = <<>>
    /\ data_file = File(LegacyDocument)
    /\ temp_file = Absent
    /\ cache = load_data(data_file, backup_dir)
    /\ dirty = FALSE
    /\ lock = "none" /\ ui = "out" /\ instants = {}
    /\ config = NoValue /\ window = NoValue
    /\ worker = WorkerIdle(None)

\* MainWindow._auto_save: a worker is started unless one is running
AutoSave ==
    /\ worker.pc = "idle"
    /\ worker' = [worker EXCEPT !.pc = "acquire"]
    /\ UNCHANGED <<op, args, returned, raised, result, vresult, store_vars,
                   month_record, app_vars, backup_dir, lock, ui, instants>>

\* save_data: with self._lock
WorkerAcquire ==
    /\ worker.pc = "acquire"
    /\ can_acquire(lock, "worker")
    /\ lock' = "worker"
    /\ worker' = [worker EXCEPT !.pc = "check"]
    /\ instants' = {cache}
    /\ UNCHANGED <<op, args, returned, raised, result, vresult, store_vars,
                   month_record, app_vars, backup_dir, ui>>

\* save_data: if not self._dirty and not force: return True; otherwise
\* convert_value starts to iterate over the cache
WorkerCheck ==
    /\ worker.pc = "check"
    /\ IF ~dirty
       THEN /\ worker' = WorkerIdle(Some(TRUE))
            /\ lock' = "none"
            /\ instants' = {}
       ELSE /\ worker' = [worker EXCEPT !.pc = "prepare", !.keys = DOMAIN cache,
                                        !.serializable_data = <<>>]
            /\ UNCHANGED <<lock, instants>>
    /\ UNCHANGED <<op, args, returned, raised, result, vresult, store_vars,
                   month_record, app_vars, backup_dir, ui>>

\* _prepare_data_for_serialization, one year of the cache for each step.  A
\* dictionary whose keys changed during the iteration raises RuntimeError,
\* which save_data catches: it returns False.
WorkerPrepare ==
    /\ worker.pc = "prepare"
    /\ LET left == worker.keys \ DOMAIN worker.serializable_data
       IN  IF DOMAIN cache # worker.keys
           THEN /\ worker' = WorkerIdle(Some(FALSE))
                /\ lock' = "none"
                /\ instants' = {}
           ELSE IF left = {}
           THEN /\ worker' = [worker EXCEPT !.pc = "write"]
                /\ UNCHANGED <<lock, instants>>
           ELSE LET y == next_key(left)
                    year_data == prepare_data_for_serialization(y :> cache[y])
                IN  /\ worker' = [worker EXCEPT !.serializable_data =
                                                    @ @@ year_data]
                    /\ UNCHANGED <<lock, instants>>
    /\ UNCHANGED <<op, args, returned, raised, result, vresult, store_vars,
                   month_record, app_vars, backup_dir, ui>>

\* save_data: json.dump(serializable_data, f) into the temporary file
WorkerWrite ==
    /\ worker.pc = "write"
    /\ temp_file' = File(json_dump(worker.serializable_data))
    /\ worker' = [worker EXCEPT !.pc = "replace"]
    /\ UNCHANGED <<op, args, returned, raised, result, vresult, cache, dirty,
                   data_file, month_record, app_vars, backup_dir, lock, ui, instants>>

\* save_data: temp_file.replace(self.data_file), self._dirty = False,
\* return True, and the lock is released
WorkerReplace ==
    /\ worker.pc = "replace"
    /\ data_file' = temp_file
    /\ temp_file' = Absent
    /\ dirty' = FALSE
    /\ worker' = WorkerIdle(Some(TRUE))
    /\ lock' = "none"
    /\ instants' = {}
    /\ UNCHANGED <<op, args, returned, raised, result, vresult, cache,
                   month_record, app_vars, backup_dir, ui>>

\* the calls the UI thread makes
UiCalls ==
    {[op |-> "save_month_data",
      args |-> [year |-> year, month |-> "Janeiro", month_data |-> SavedMonth,
                results |-> ResultWithBalance(2), now |-> 2]] :
         year \in {2024, 2025}}
    \cup {[op |-> "delete_month", args |-> [year |-> 2024, month |-> "Fevereiro"]],
          [op |-> "repair_data", args |-> [now |-> 2]]}

\* the UI thread calls an operation and reaches its "with self._lock"
UiCall ==
    /\ ui = "out"
    /\ \E call \in UiCalls : op' = call.op /\ args' = call.args
    /\ returned' = NoValue /\ raised' = "none"
    /\ ui' = "waiting"
    /\ UNCHANGED <<result, vresult, store_vars, month_record, app_vars, backup_dir, lock,
                   worker, instants>>

UiAcquire ==
    /\ ui = "waiting"
    /\ can_acquire(lock, "ui")
    /\ lock' = "ui"
    /\ ui' = "in"
    /\ UNCHANGED <<op, args, returned, raised, result, vresult, store_vars,
                   month_record, app_vars, backup_dir, worker, instants>>

\* the body of the operation of the UI thread, its return and the release
\* of the lock
Leave(out) ==
    /\ cache' = out.cache
    /\ dirty' = out.dirty
    /\ returned' = out.returned
    /\ ui' = "out"
    /\ lock' = "none"
    /\ instants' = IF worker.pc \in Holding THEN instants \cup {out.cache}
                   ELSE instants
    /\ UNCHANGED <<op, args, raised, result, vresult, data_file, temp_file,
                   month_record, app_vars, backup_dir, worker>>

UiSaveMonthData ==
    /\ ui = "in" /\ op = "save_month_data"
    /\ Leave(save_month_data(cache, dirty, args.year, args.month,
                             args.month_data, args.results, args.now))

UiDeleteMonth ==
    /\ ui = "in" /\ op = "delete_month"
    /\ Leave(delete_month(cache, dirty, args.year, args.month))

UiRepairData ==
    /\ ui = "in" /\ op = "repair_data"
    /\ Leave(repair_data(cache, dirty, args.now))

NextThreads ==
    \/ AutoSave
    \/ WorkerAcquire
    \/ WorkerCheck
    \/ WorkerPrepare
    \/ WorkerWrite
    \/ WorkerReplace
    \/ UiCall
    \/ UiAcquire
    \/ UiSaveMonthData
    \/ UiDeleteMonth
    \/ UiRepairData

SpecThreads == InitThreads /\ [][NextThreads]_vars

\* C14: save_data on the worker thread and save_month_data, delete_month
\* and repair_data on the UI thread are serialized by the lock: the UI
\* thread is never inside one of them while the worker is inside save_data,
\* the cache does not change while the worker holds the lock, and the file
\* the worker writes is the serialization of the cache as it was at one
\* instant of its save.
C14_SaveIsSerializedWithMutations ==
    /\ [](~(ui = "in" /\ worker.pc \in Holding))
    /\ [][/\ worker.pc \in Holding => cache' = cache
          /\ (worker.pc = "replace" /\ worker'.pc = "idle") =>
                 \E c \in instants :
                     data_file' = File(json_dump(prepare_data_for_serialization(c)))]_vars

\* the worker has written the document of a changed cache and is about to
\* put it in place, while the UI thread waits for the lock in a mutation
C14_Witness ==
    /\ worker.pc = "replace"
    /\ temp_file.exists
    /\ temp_file # data_file
    /\ ui = "waiting"
    /\ op \in {"save_month_data", "delete_month", "repair_data"}

(***************************************************************************)
(* SpecIntegrity: a DataManager built on a data file of many months, some  *)
(* of them malformed, and asked for its statistics.                        *)
(***************************************************************************)
\* months of a data file: as save_month_data writes them, without the
\* sub-records, and with results that are a string
WholeMonth == HealthyDocument["2024"]["Dezembro"]
BareMonth == LegacyDocument["2024"]["Janeiro"]
MonthWithTextResults == [WholeMonth EXCEPT !.results = DecimalStr(3)]

\* a year of a data file: its first whole months are as saved, the next
\* malformed ones are malformed
YearDocument(whole, malformed, malformed_month) ==
    [month_name \in {months[i] : i \in 1..(whole + malformed)} |->
         IF \E i \in 1..whole : months[i] = month_name THEN WholeMonth
         ELSE malformed_month]

InitIntegrity ==
    /\ Idle
    /\ temp_file = Absent
    /\ dirty = FALSE
    /\ \E year \in {"1999", "2024"}, whole \in 0..12, malformed \in 0..2,
          more \in {0, 9, 12}, malformed_month \in {BareMonth, MonthWithTextResults} :
           /\ whole + malformed <= 12
           /\ data_file = File((year :> YearDocument(whole, malformed, malformed_month))
                               @@ IF more = 0 THEN <<>>
                                  ELSE ("2025" :> YearDocument(more, 0, WholeMonth)))
    /\ cache = load_data(data_file, backup_dir)

NextIntegrity ==
    \/ GetDataStatistics
    \/ RepairData
    \/ Return

SpecIntegrity == InitIntegrity /\ [][NextIntegrity]_vars

\* the months of the cache and those of them that are malformed: no
\* dictionary, a sub-record missing, or results that are no dictionary
MonthEntries == {k \in (DOMAIN cache) \X {months[i] : i \in 1..12} : k[2] \in DOMAIN cache[k[1]]}

IsMalformed(k) ==
    LET month_data == cache[k[1]][k[2]]
    IN  \/ \E field \in {"electricity", "recurring_bills", "payments"} :
               field \notin DOMAIN month_data
        \/ "results" \in DOMAIN month_data /\ ~IsDict(month_data.results)

ByFraction ==
    LET total == Cardinality(MonthEntries)
        malformed == Cardinality({k \in MonthEntries : IsMalformed(k)})
    IN  IF total = 0 THEN "empty"
        ELSE IF malformed = 0 THEN "healthy"
        ELSE IF malformed * 100 < 10 * total THEN "minor_issues"
        ELSE "corrupted"

\* C21 as stated: the classification is 'empty' with zero month entries,
\* 'healthy' with no malformed entry, 'minor_issues' when fewer than 10% of
\* the entries are malformed and 'corrupted' otherwise.
C21_ClassificationByFraction ==
    op = "get_data_statistics" => returned.integrity_status = ByFraction

\* C21 amended: with every year of the index within 2000..2100 the
\* classification is as stated; with a year outside that range it is
\* 'corrupted' whatever the month entries are.
C21_ClassificationByFractionOfValidYears ==
    op = "get_data_statistics" =>
        returned.integrity_status =
            IF \A y \in DOMAIN cache : 2000 <= y /\ y <= 2100 THEN ByFraction
            ELSE "corrupted"

\* an index of ten entries of which one is malformed, classified
C21_Witness ==
    /\ op = "get_data_statistics"
    /\ returned.total_months = 10
    /\ Cardinality({k \in MonthEntries : IsMalformed(k)}) = 1
    /\ returned.integrity_status = "corrupted"

(***************************************************************************)
(* The ConfigManager (config_manager.py): config is the record of its      *)
(* values, its dirty flag, its file and its threading.Timer, which is      *)
(* "none" (never created), "started", "finished" (its function has run)    *)
(* or "cancelled".  Of AppConfig the fields theme and auto_save are kept.  *)
(***************************************************************************)
\* AppConfig()
AppConfig == [theme |-> "dark", auto_save |-> TRUE]

\* ConfigManager._merge_config: keys that AppConfig does not have are left out
merge_config(config_data) ==
    [key \in DOMAIN AppConfig |->
         IF key \in DOMAIN config_data THEN config_data[key] ELSE AppConfig[key]]

\* ConfigManager._save_config at time now
save_config(c, now) ==
    [c EXCEPT !.file = File(c.values
                            @@ [_metadata |-> [saved_at |-> IsoFormat(now)]]),
              !.dirty = FALSE]

\* ConfigManager._load_config at time now: without a file, or with one that
\* is no JSON, the defaults are taken and saved
load_config(file, now) ==
    LET fresh == [values |-> AppConfig, dirty |-> FALSE, file |-> file,
                  timer |-> "none"]
    IN  IF ~file.exists \/ json_load(file.content).raised = "JSONDecodeError"
        THEN save_config(fresh, now)
        ELSE [fresh EXCEPT !.values = merge_config(file.content)]

\* ConfigManager._start_auto_save: the old timer, if any, is cancelled and
\* a new threading.Timer is started
start_auto_save(c) == [c EXCEPT !.timer = "started"]

\* auto_save_worker, the function the timer of _start_auto_save runs once
\* when it expires; it starts no timer
auto_save_worker(c, now) ==
    [(IF c.dirty THEN save_config(c, now) ELSE c) EXCEPT !.timer = "finished"]

\* ConfigManager.__init__
ConfigManager(file, now) ==
    LET c == load_config(file, now)
    IN  IF c.values.auto_save THEN start_auto_save(c) ELSE c

\* ConfigManager.set(key, value) with a value of the type of the key
config_set(c, key, value) ==
    IF key \notin DOMAIN c.values
    THEN [config |-> c, returned |-> FALSE]
    ELSE [config |-> [c EXCEPT !.values[key] = value, !.dirty = TRUE],
          returned |-> TRUE]

\* ConfigManager.reset_to_defaults
reset_to_defaults(c, now) == save_config([c EXCEPT !.values = AppConfig], now)

\* ConfigManager.close: Timer.cancel() stops a timer that has not expired
config_close(c, now) ==
    LET stopped == [c EXCEPT !.timer = IF @ = "started" THEN "cancelled" ELSE @]
    IN  IF c.dirty THEN save_config(stopped, now) ELSE stopped

(***************************************************************************)
(* SpecConfig: a ConfigManager built on a settings file that is absent,    *)
(* present or damaged, then used and closed, while its timer runs.  A      *)
(* started timer expires unless it is cancelled, and a call returns.       *)
(***************************************************************************)
SavedSettings(values) == values @@ [_metadata |-> [saved_at |-> IsoFormat(1)]]

InitConfig ==
    /\ op = "idle" /\ args = <<>> /\ returned = NoValue /\ raised = "none"
    /\ result = NoValue /\ vresult = NoValue
    /\ cache = <<>> /\ dirty = FALSE /\ data_file = Absent /\ temp_file = Absent
    /\ month_record = NoValue /\ backup_dir = <<>>
    /\ lock = "none" /\ ui = "out" /\ worker = NoValue /\ instants = {}
    /\ window = NoValue
    /\ \E file \in {Absent, File(Truncated(SavedSettings(AppConfig))),
                    File(SavedSettings([theme |-> "light", auto_save |-> TRUE])),
                    File([auto_save |-> FALSE])} :
           config = ConfigManager(file, 2)

\* a call of the ConfigManager, or the expiry of its timer
ConfigCall(name, arguments, self, value) ==
    /\ op' = name /\ args' = arguments /\ returned' = value /\ raised' = "none"
    /\ config' = self
    /\ UNCHANGED <<result, vresult, store_vars, month_record, backup_dir,
                   thread_vars, window>>

ConfigSet ==
    /\ op = "idle"
    /\ \E key \in {"theme", "auto_save", "colour"}, now \in {3} :
        \E value \in IF key = "auto_save" THEN BOOLEAN ELSE {"dark", "light"} :
            LET out == config_set(config, key, value)
            IN  ConfigCall("set", [key |-> key, value |-> value], out.config,
                           out.returned)

ConfigSave ==
    /\ op = "idle"
    /\ \E now \in {3} :
           ConfigCall("save", [now |-> now], save_config(config, now), TRUE)

ConfigResetToDefaults ==
    /\ op = "idle"
    /\ \E now \in {3} :
           ConfigCall("reset_to_defaults", [now |-> now],
                      reset_to_defaults(config, now), TRUE)

ConfigClose ==
    /\ op = "idle"
    /\ \E now \in {3} :
           ConfigCall("close", [now |-> now], config_close(config, now), None)

\* the timer expires: returned is what _save_config returned, if it was called
TimerExpiry ==
    /\ op = "idle"
    /\ config.timer = "started"
    /\ \E now \in {3} :
           ConfigCall("auto_save_worker", [now |-> now],
                      auto_save_worker(config, now),
                      IF config.dirty THEN Some(TRUE) ELSE None)

NextConfig ==
    \/ ConfigSet
    \/ ConfigSave
    \/ ConfigResetToDefaults
    \/ ConfigClose
    \/ TimerExpiry
    \/ Return

SpecConfig ==
    InitConfig /\ [][NextConfig]_vars /\ WF_vars(TimerExpiry) /\ WF_vars(Return)

\* C23: the timer is started again at every expiry; after every change
\* that sets the dirty flag some later expiry of the timer saves, unless
\* the configuration is saved explicitly or closed first; an expiry that
\* finds the dirty flag clear does not write the file.
C23_AutoSaveTimerIsRearmed ==
    /\ [][op' = "auto_save_worker" => config'.timer = "started"]_vars
    /\ [][(op' = "auto_save_worker" /\ ~config.dirty) =>
              (returned' = None /\ config'.file = config.file)]_vars
    /\ config.dirty ~>
           (\/ op = "auto_save_worker" /\ returned # None
            \/ op \in {"save", "reset_to_defaults", "close"})

\* C27: straight after repair_data returns success, the integrity
\* classification of the index is 'healthy' or 'empty'.
C27_RepairedStoreIsHealthy ==
    (op = "repair_data" /\ returned.success) =>
        check_data_integrity(cache) \in {"healthy", "empty"}

(***************************************************************************)
(* SpecRestore: an open DataManager whose data file is restored from a     *)
(* backup, as MainWindow.restore_backup does, and which is then saved or   *)
(* closed.                                                                 *)
(***************************************************************************)
InitRestore ==
    /\ op = "idle" /\ args = <<>> /\ returned = NoValue /\ raised = "none"
    /\ result = NoValue /\ vresult = ValidationResult
    /\ month_record = NoValue
    /\ lock = "none" /\ ui = "out" /\ worker = NoValue /\ instants = {}
    /\ config = NoValue /\ window = NoValue
    /\ temp_file = Absent
    /\ dirty = FALSE
    /\ data_file \in {File(HealthyDocument), File(LegacyDocument)}
    /\ backup_dir \in {<<CreatedBackup(1, FALSE)>>,
                       <<CreatedBackup(1, TRUE), CopiedBackup(0)>>}
    /\ cache = load_data(data_file, backup_dir)

\* close(), also straight after a restore_backup
Close ==
    /\ op \in {"idle", "restore_backup"}
    /\ \E fault \in {"none", "write"} :
           LET out == close(cache, dirty, data_file, temp_file, fault)
           IN  /\ op' = "close"
               /\ args' = [fault |-> fault]
               /\ returned' = None
               /\ raised' = "none"
               /\ data_file' = out.data_file
               /\ temp_file' = out.temp_file
               /\ dirty' = out.dirty
               /\ UNCHANGED <<result, vresult, cache, other_vars>>

NextRestore ==
    \/ DeleteMonth
    \/ RestoreBackup
    \/ SaveData
    \/ Close
    \/ Return

SpecRestore == InitRestore /\ [][NextRestore]_vars

\* C28: once restore_backup has succeeded on the data file of an open
\* DataManager, a save_data(force) or close() of that DataManager does not
\* put the index it held before the restore in place of the restored
\* content: the call leaves the restored file as it is.
C28_RestoredFileIsNotOverwritten ==
    [][(/\ op = "restore_backup" /\ returned.success
        /\ op' \in {"save_data", "close"}) =>
           data_file' = data_file]_vars

(***************************************************************************)
(* SpecWindow: the MainWindow on a DataManager with no data file yet.  The *)
(* month widget is edited, the window is saved by hand, and the auto-save  *)
(* timer starts the AutoSaveWorker, whose save_completed signal is         *)
(* delivered to the window later.                                          *)
(***************************************************************************)
MaxEdits == 3           \* the month widget is edited up to MaxEdits times

\* month_widget.get_month_data() after a number of edits: each edit changes
\* the water bill
WidgetMonth(edits) == [SavedMonth EXCEPT !.recurring_bills.water = edits]

\* MainWindow._on_data_changed
on_data_changed(w) == [w EXCEPT !.is_dirty = TRUE]

\* MainWindow._auto_save with auto_save set: a worker is started when the
\* window is dirty and no worker is running
auto_save(w) ==
    IF w.is_dirty /\ w.auto_save_worker # "running"
    THEN [w EXCEPT !.auto_save_worker = "running"]
    ELSE w

\* MainWindow._on_auto_save_completed(success)
on_auto_save_completed(w, success) ==
    IF success THEN [w EXCEPT !.is_dirty = FALSE] ELSE w

window_rest ==
    <<op, args, returned, raised, result, vresult, month_record, backup_dir,
      thread_vars, config>>

InitWindow ==
    /\ op = "idle" /\ args = <<>> /\ returned = NoValue /\ raised = "none"
    /\ result = NoValue /\ vresult = ValidationResult
    /\ month_record = NoValue /\ backup_dir = <<>>
    /\ lock = "none" /\ ui = "out" /\ worker = NoValue /\ instants = {}
    /\ config = NoValue
    /\ data_file = Absent /\ temp_file = Absent
    /\ cache = load_data(data_file, backup_dir) /\ dirty = FALSE
    /\ window = [is_dirty |-> FALSE, edits |-> 0, auto_save_worker |-> "none",
                 save_completed |-> None]

\* an edit in the month widget, which emits data_changed
DataChanged ==
    /\ window.edits < MaxEdits
    /\ window' = [on_data_changed(window) EXCEPT !.edits = @ + 1]
    /\ UNCHANGED <<store_vars, window_rest>>

\* MainWindow.save_data: the month of the widget goes into the index with
\* save_month_data; get_current_results() is None before a calculation
WindowSaveData ==
    /\ \E results \in {ResultWithBalance(2), None}, now \in {2} :
           LET out == save_month_data(cache, dirty, 2024, "Janeiro",
                                      WidgetMonth(window.edits), results, now)
           IN  /\ cache' = out.cache
               /\ dirty' = out.dirty
               /\ window' = IF out.returned THEN [window EXCEPT !.is_dirty = FALSE]
                            ELSE window
    /\ UNCHANGED <<data_file, temp_file, window_rest>>

\* the timeout of auto_save_timer; a timeout that comes while a
\* save_completed signal is still queued is left out
AutoSaveTimeout ==
    /\ window.save_completed = None
    /\ auto_save(window) # window
    /\ window' = auto_save(window)
    /\ UNCHANGED <<store_vars, window_rest>>

\* AutoSaveWorker.run: save_data() and the emission of save_completed
AutoSaveWorkerRun ==
    /\ window.auto_save_worker = "running"
    /\ \E fault \in {"none", "write"} :
           LET out == save_data(cache, dirty, data_file, temp_file, FALSE, fault)
           IN  /\ data_file' = out.data_file
               /\ temp_file' = out.temp_file
               /\ dirty' = out.dirty
               /\ window' = [window EXCEPT !.auto_save_worker = "finished",
                                           !.save_completed = Some(out.returned)]
    /\ UNCHANGED <<cache, window_rest>>

\* the delivery of save_completed to the window
OnAutoSaveCompleted ==
    /\ window.save_completed # None
    /\ window' = [on_auto_save_completed(window, window.save_completed[1])
                     EXCEPT !.save_completed = None]
    /\ UNCHANGED <<store_vars, window_rest>>

NextWindow ==
    \/ DataChanged
    \/ WindowSaveData
    \/ AutoSaveTimeout
    \/ AutoSaveWorkerRun
    \/ OnAutoSaveCompleted

SpecWindow == InitWindow /\ [][NextWindow]_vars

\* the number of edits of the month that the data file holds
EditsInFile ==
    IF /\ data_file.exists
       /\ "2024" \in DOMAIN data_file.content
       /\ "Janeiro" \in DOMAIN data_file.content["2024"]
    THEN data_file.content["2024"]["Janeiro"].recurring_bills.water.str
    ELSE 0

\* C30: once an edit has been notified, the unsaved-changes flag of the
\* window is false only when every edit notified so far is in the data file
\* and the store is not dirty.
C30_FlagClearOnlyWhenWritten ==
    (window.edits > 0 /\ ~window.is_dirty) =>
        (~dirty /\ EditsInFile = window.edits)

====
